---------------------------- MODULE Spec2Model ----------------------------
(***************************************************************************)
(* RepoMatch: the skill normaliser (lib/skills), its memoising cache       *)
(* (lib/cache) and the repository scorer (lib/scoring).                    *)
(*                                                                         *)
(* Strings are TLA+ strings over printable ASCII.  Skill weights are       *)
(* counted in tenths (1.0 is 10, 0.9 is 9, 0.8 is 8, 0.5 is 5).            *)
(***************************************************************************)
EXTENDS Integers, Sequences, FiniteSets, TLC

(***************************************************************************)
(* Strings                                                                 *)
(***************************************************************************)
Upper == "ABCDEFGHIJKLMNOPQRSTUVWXYZ"
Lower == "abcdefghijklmnopqrstuvwxyz"
Digits == "0123456789"
\* The other characters of the model's alphabet, with their char codes.
Symbols == " #+,-./="
SymbolCodes == <<32, 35, 43, 44, 45, 46, 47, 61>>

CharAt(s, i) == SubSeq(s, i, i)

\* String.prototype.indexOf for one character, counted from 1; 0 when absent.
IndexOf(t, c) ==
  LET at == {i \in 1..Len(t) : CharAt(t, i) = c}
  IN IF at = {} THEN 0 ELSE CHOOSE i \in at : \A j \in at : i <= j

\* String.prototype.charCodeAt for a character of the alphabet (ASCII).
CharCode(c) ==
  IF IndexOf(Lower, c) > 0 THEN 96 + IndexOf(Lower, c)
  ELSE IF IndexOf(Upper, c) > 0 THEN 64 + IndexOf(Upper, c)
  ELSE IF IndexOf(Digits, c) > 0 THEN 47 + IndexOf(Digits, c)
  ELSE SymbolCodes[IndexOf(Symbols, c)]

IsDigit(c) == IndexOf(Digits, c) > 0

IsWhiteSpace(c) == c = " "

\* String.prototype.toLowerCase
UpperChars == {CharAt(Upper, i) : i \in 1..Len(Upper)}

LowerChar(c) ==
  IF c \in UpperChars THEN CharAt(Lower, IndexOf(Upper, c)) ELSE c

RECURSIVE ToLowerCase(_)
ToLowerCase(s) ==
  IF Len(s) = 0 THEN ""
  ELSE IF Len(s) = 1 THEN LowerChar(s)
  ELSE LET half == Len(s) \div 2
       IN ToLowerCase(SubSeq(s, 1, half)) \o ToLowerCase(SubSeq(s, half + 1, Len(s)))

\* String.prototype.trim
RECURSIVE TrimStart(_)
TrimStart(s) ==
  IF s = "" THEN ""
  ELSE IF IsWhiteSpace(CharAt(s, 1)) THEN TrimStart(SubSeq(s, 2, Len(s)))
  ELSE s

RECURSIVE TrimEnd(_)
TrimEnd(s) ==
  IF s = "" THEN ""
  ELSE IF IsWhiteSpace(CharAt(s, Len(s))) THEN TrimEnd(SubSeq(s, 1, Len(s) - 1))
  ELSE s

Trim(s) == TrimEnd(TrimStart(s))

\* String.prototype.includes
Includes(s, t) ==
  \E i \in 0..(Len(s) - Len(t)) : SubSeq(s, i + 1, i + Len(t)) = t

\* skill.match(/\d+/)
HasDigit(s) == \E i \in 1..Len(s) : IsDigit(CharAt(s, i))

\* skill.replace(/\d+/g, '')
RECURSIVE StripDigits(_)
StripDigits(s) ==
  IF Len(s) = 0 THEN ""
  ELSE IF Len(s) = 1 THEN (IF IsDigit(s) THEN "" ELSE s)
  ELSE LET half == Len(s) \div 2
       IN StripDigits(SubSeq(s, 1, half)) \o StripDigits(SubSeq(s, half + 1, Len(s)))

\* a < b in the order of Array.prototype.sort without a comparator: by code
\* units, a proper prefix first.
RECURSIVE StrLess(_, _)
StrLess(a, b) ==
  IF b = "" THEN FALSE
  ELSE IF a = "" THEN TRUE
  ELSE IF CharAt(a, 1) = CharAt(b, 1)
       THEN StrLess(SubSeq(a, 2, Len(a)), SubSeq(b, 2, Len(b)))
  ELSE CharCode(CharAt(a, 1)) < CharCode(CharAt(b, 1))

\* Array.prototype.includes
InSeq(x, seq) == \E i \in 1..Len(seq) : seq[i] = x

(***************************************************************************)
(* The skill graph                                                         *)
(***************************************************************************)
\* The `skills` literal of initializeSkillGraph.
Catalog ==
  << [name |-> "javascript", aliases |-> <<"js", "ecmascript">>, category |-> "language",
      related |-> <<"typescript", "nodejs", "react", "vue", "angular">>,
      expanded |-> <<"javascript", "js", "ecmascript", "frontend", "web", "browser">>],
     [name |-> "typescript", aliases |-> <<"ts">>, category |-> "language",
      related |-> <<"javascript", "react", "angular", "nodejs">>,
      expanded |-> <<"typescript", "ts", "javascript", "js", "frontend", "web", "typed">>],
     [name |-> "html", aliases |-> <<"html5">>, category |-> "language",
      related |-> <<"css", "javascript", "web">>,
      expanded |-> <<"html", "html5", "markup", "web", "frontend", "semantic">>],
     [name |-> "css", aliases |-> <<"css3">>, category |-> "language",
      related |-> <<"html", "javascript", "scss", "sass">>,
      expanded |-> <<"css", "css3", "styling", "web", "frontend", "design">>],
     [name |-> "react", aliases |-> <<"reactjs">>, category |-> "framework",
      related |-> <<"javascript", "typescript", "jsx", "redux">>,
      expanded |-> <<"react", "reactjs", "javascript", "js", "frontend", "web", "ui", "component", "jsx", "hooks">>],
     [name |-> "vue", aliases |-> <<"vuejs">>, category |-> "framework",
      related |-> <<"javascript", "typescript", "nuxt">>,
      expanded |-> <<"vue", "vuejs", "javascript", "js", "frontend", "web", "ui", "component">>],
     [name |-> "angular", aliases |-> <<"angularjs">>, category |-> "framework",
      related |-> <<"typescript", "javascript", "rxjs">>,
      expanded |-> <<"angular", "angularjs", "typescript", "ts", "javascript", "js", "frontend", "web", "ui", "component">>],
     [name |-> "svelte", aliases |-> <<>>, category |-> "framework",
      related |-> <<"javascript", "typescript">>,
      expanded |-> <<"svelte", "javascript", "js", "frontend", "web", "ui", "component">>],
     [name |-> "python", aliases |-> <<"py">>, category |-> "language",
      related |-> <<"django", "flask", "fastapi", "pandas", "numpy">>,
      expanded |-> <<"python", "py", "backend", "server", "scripting", "data-science">>],
     [name |-> "java", aliases |-> <<>>, category |-> "language",
      related |-> <<"spring", "maven", "gradle">>,
      expanded |-> <<"java", "backend", "server", "enterprise", "jvm">>],
     [name |-> "go", aliases |-> <<"golang">>, category |-> "language",
      related |-> <<"gin", "echo", "fiber">>,
      expanded |-> <<"go", "golang", "backend", "server", "microservice", "concurrent">>],
     [name |-> "rust", aliases |-> <<>>, category |-> "language",
      related |-> <<"actix", "tokio", "serde">>,
      expanded |-> <<"rust", "backend", "server", "systems", "performance", "memory-safe">>],
     [name |-> "php", aliases |-> <<>>, category |-> "language",
      related |-> <<"laravel", "symfony", "composer">>,
      expanded |-> <<"php", "backend", "server", "web">>],
     [name |-> "ruby", aliases |-> <<>>, category |-> "language",
      related |-> <<"rails", "sinatra", "bundler">>,
      expanded |-> <<"ruby", "backend", "server", "web", "rails">>],
     [name |-> "nodejs", aliases |-> <<"node">>, category |-> "platform",
      related |-> <<"javascript", "express", "koa", "nestjs">>,
      expanded |-> <<"nodejs", "node", "javascript", "js", "backend", "server", "npm">>],
     [name |-> "django", aliases |-> <<>>, category |-> "framework",
      related |-> <<"python", "djangorestframework">>,
      expanded |-> <<"django", "python", "py", "backend", "server", "web", "mvc", "orm">>],
     [name |-> "flask", aliases |-> <<>>, category |-> "framework",
      related |-> <<"python", "sqlalchemy">>,
      expanded |-> <<"flask", "python", "py", "backend", "server", "web", "microframework">>],
     [name |-> "express", aliases |-> <<"expressjs">>, category |-> "framework",
      related |-> <<"nodejs", "javascript">>,
      expanded |-> <<"express", "expressjs", "nodejs", "node", "javascript", "js", "backend", "server", "web">>],
     [name |-> "spring", aliases |-> <<"springboot">>, category |-> "framework",
      related |-> <<"java", "maven">>,
      expanded |-> <<"spring", "springboot", "java", "backend", "server", "enterprise", "dependency-injection">>],
     [name |-> "postgresql", aliases |-> <<"postgres">>, category |-> "tool",
      related |-> <<"sql", "database">>,
      expanded |-> <<"postgresql", "postgres", "sql", "database", "db", "relational">>],
     [name |-> "mysql", aliases |-> <<>>, category |-> "tool",
      related |-> <<"sql", "database">>,
      expanded |-> <<"mysql", "sql", "database", "db", "relational">>],
     [name |-> "mongodb", aliases |-> <<"mongo">>, category |-> "tool",
      related |-> <<"nosql", "database">>,
      expanded |-> <<"mongodb", "mongo", "nosql", "database", "db", "document">>],
     [name |-> "redis", aliases |-> <<>>, category |-> "tool",
      related |-> <<"cache", "database">>,
      expanded |-> <<"redis", "cache", "database", "db", "key-value", "in-memory">>],
     [name |-> "docker", aliases |-> <<>>, category |-> "tool",
      related |-> <<"kubernetes", "containerization">>,
      expanded |-> <<"docker", "container", "containerization", "devops", "deployment">>],
     [name |-> "kubernetes", aliases |-> <<"k8s">>, category |-> "tool",
      related |-> <<"docker", "containerization">>,
      expanded |-> <<"kubernetes", "k8s", "container", "orchestration", "devops", "deployment">>],
     [name |-> "aws", aliases |-> <<"amazon web services">>, category |-> "platform",
      related |-> <<"cloud", "devops">>,
      expanded |-> <<"aws", "amazon web services", "cloud", "devops", "infrastructure">>],
     [name |-> "git", aliases |-> <<>>, category |-> "tool",
      related |-> <<"github", "gitlab">>,
      expanded |-> <<"git", "version-control", "vcs", "scm">>],
     [name |-> "machine learning", aliases |-> <<"ml">>, category |-> "concept",
      related |-> <<"python", "tensorflow", "pytorch", "scikit-learn">>,
      expanded |-> <<"machine learning", "ml", "ai", "artificial intelligence", "data-science", "python", "py">>],
     [name |-> "tensorflow", aliases |-> <<"tf">>, category |-> "library",
      related |-> <<"python", "machine learning">>,
      expanded |-> <<"tensorflow", "tf", "python", "py", "machine learning", "ml", "deep learning", "neural network">>],
     [name |-> "pytorch", aliases |-> <<>>, category |-> "library",
      related |-> <<"python", "machine learning">>,
      expanded |-> <<"pytorch", "python", "py", "machine learning", "ml", "deep learning", "neural network">>],
     [name |-> "pandas", aliases |-> <<>>, category |-> "library",
      related |-> <<"python", "data science">>,
      expanded |-> <<"pandas", "python", "py", "data-science", "data-analysis", "dataframe">>],
     [name |-> "react native", aliases |-> <<"reactnative">>, category |-> "framework",
      related |-> <<"react", "javascript", "mobile">>,
      expanded |-> <<"react native", "reactnative", "react", "javascript", "js", "mobile", "ios", "android", "cross-platform">>],
     [name |-> "flutter", aliases |-> <<>>, category |-> "framework",
      related |-> <<"dart", "mobile">>,
      expanded |-> <<"flutter", "dart", "mobile", "ios", "android", "cross-platform", "ui">>],
     [name |-> "swift", aliases |-> <<>>, category |-> "language",
      related |-> <<"ios", "mobile">>,
      expanded |-> <<"swift", "ios", "mobile", "apple", "objective-c">>],
     [name |-> "kotlin", aliases |-> <<>>, category |-> "language",
      related |-> <<"android", "mobile">>,
      expanded |-> <<"kotlin", "android", "mobile", "jvm", "java">>] >>

\* No entry / no value (null, undefined).
Null == [null |-> TRUE]

\* A Map is kept as the sequence of its entries in insertion order.
MapHas(map, k) == \E i \in 1..Len(map) : map[i].key = k

MapIndex(map, k) == CHOOSE i \in 1..Len(map) : map[i].key = k

MapGet(map, k) == IF MapHas(map, k) THEN map[MapIndex(map, k)].value ELSE Null

\* Map.prototype.set: a key already present keeps its place and takes the value.
MapSet(map, k, v) ==
  IF MapHas(map, k) THEN [map EXCEPT ![MapIndex(map, k)].value = v]
  ELSE Append(map, [key |-> k, value |-> v])

MapValues(map) == [i \in 1..Len(map) |-> map[i].value]

\* The Map after set(pairs[1].key, pairs[1].value), set(pairs[2].key, ...), ...:
\* one entry per key, placed by the key's first set, valued by its last.
MapOfSets(pairs) ==
  LET first == {i \in 1..Len(pairs) : \A j \in 1..(i - 1) : pairs[j].key # pairs[i].key}
      last(k) == CHOOSE i \in 1..Len(pairs) :
                   /\ pairs[i].key = k
                   /\ \A j \in (i + 1)..Len(pairs) : pairs[j].key # k
      nth(m) == CHOOSE i \in first : Cardinality({j \in first : j <= i}) = m
  IN [m \in 1..Cardinality(first) |->
        [key |-> pairs[nth(m)].key, value |-> pairs[last(pairs[nth(m)].key)].value]]

\* initializeSkillGraph: skillGraph.set(skill.name.toLowerCase(), skill) for
\* each node of the catalog, in order.
initializeSkillGraph ==
  MapOfSets([i \in 1..Len(Catalog) |->
               [key |-> ToLowerCase(Catalog[i].name), value |-> Catalog[i]]])

(***************************************************************************)
(* SkillNormalizer                                                         *)
(***************************************************************************)
\* The abbreviation table of generateVariations, in Object.entries order.
Abbreviations ==
  << [full |-> "javascript", abbrevs |-> <<"js">>],
     [full |-> "typescript", abbrevs |-> <<"ts">>],
     [full |-> "python", abbrevs |-> <<"py">>],
     [full |-> "react", abbrevs |-> <<"reactjs">>],
     [full |-> "vue", abbrevs |-> <<"vuejs">>],
     [full |-> "angular", abbrevs |-> <<"angularjs">>],
     [full |-> "node", abbrevs |-> <<"nodejs">>],
     [full |-> "machine learning", abbrevs |-> <<"ml", "machinelearning">>],
     [full |-> "artificial intelligence", abbrevs |-> <<"ai">>],
     [full |-> "user interface", abbrevs |-> <<"ui">>],
     [full |-> "user experience", abbrevs |-> <<"ux">>],
     [full |-> "application programming interface", abbrevs |-> <<"api">>],
     [full |-> "representational state transfer", abbrevs |-> <<"rest">>],
     [full |-> "graphql", abbrevs |-> <<"gql">>],
     [full |-> "cascading style sheets", abbrevs |-> <<"css">>],
     [full |-> "hypertext markup language", abbrevs |-> <<"html">>] >>

\* The `full` pushed once for every abbreviation the skill includes.
RECURSIVE FullForEach(_, _, _)
FullForEach(skill, full, abbrevs) ==
  IF abbrevs = <<>> THEN <<>>
  ELSE (IF Includes(skill, Head(abbrevs)) THEN <<full>> ELSE <<>>)
         \o FullForEach(skill, full, Tail(abbrevs))

\* The loop over Object.entries(abbreviations).
RECURSIVE AbbreviationVariations(_, _)
AbbreviationVariations(skill, table) ==
  IF table = <<>> THEN <<>>
  ELSE (IF Includes(skill, Head(table).full) THEN Head(table).abbrevs ELSE <<>>)
         \o FullForEach(skill, Head(table).full, Head(table).abbrevs)
         \o AbbreviationVariations(skill, Tail(table))

VersionVariations(skill) ==
  IF HasDigit(skill) THEN <<StripDigits(skill)>>
  ELSE <<skill \o "3", skill \o "2", skill \o "1">>

generateVariations(skill) ==
  <<skill>> \o AbbreviationVariations(skill, Abbreviations) \o VersionVariations(skill)

\* findFuzzyMatch returning the node of the last variation that is a key.
findFuzzyMatchLast(graph, skill) ==
  LET variations == generateVariations(skill)
      hits == {i \in 1..Len(variations) : MapHas(graph, variations[i])}
  IN IF hits = {} THEN Null
     ELSE MapGet(graph, variations[CHOOSE i \in hits : \A j \in hits : i >= j])

\* The node of the first variation that is a key of the graph.
findFuzzyMatch(graph, skill) ==
  LET variations == generateVariations(skill)
      hits == {i \in 1..Len(variations) : MapHas(graph, variations[i])}
  IN IF hits = {} THEN Null
     ELSE MapGet(graph, variations[CHOOSE i \in hits : \A j \in hits : i <= j])

\* The node of the first entry of the graph whose aliases include the skill.
FindAliasMatch(graph, skill) ==
  LET hits == {i \in 1..Len(graph) : InSeq(skill, graph[i].value.aliases)}
  IN IF hits = {} THEN Null
     ELSE graph[CHOOSE i \in hits : \A j \in hits : i <= j].value

DirectWeight == 10
AliasWeight == 9
FuzzyWeight == 8
FallbackWeight == 5

\* FromNode naming the entry by the node's first alias when it has one.
FromNodeUnderAlias(skill, node, w) ==
  [original |-> skill,
   normalized |-> IF node.aliases = <<>> THEN node.name ELSE node.aliases[1],
   category |-> node.category, expanded |-> node.expanded, weight |-> w]

FromNode(skill, node, w) ==
  [original |-> skill, normalized |-> node.name, category |-> node.category,
   expanded |-> node.expanded, weight |-> w]

\* normalizeSkill with the fuzzy step tried before the alias step.
normalizeSkillFuzzyFirst(graph, skill) ==
  LET cleanSkill == ToLowerCase(Trim(skill))
      directMatch == MapGet(graph, cleanSkill)
      aliasMatch == FindAliasMatch(graph, cleanSkill)
      fuzzyMatch == findFuzzyMatch(graph, cleanSkill)
  IN IF cleanSkill = "" THEN Null
     ELSE IF directMatch # Null THEN FromNode(skill, directMatch, DirectWeight)
     ELSE IF fuzzyMatch # Null THEN FromNode(skill, fuzzyMatch, FuzzyWeight)
     ELSE IF aliasMatch # Null THEN FromNode(skill, aliasMatch, AliasWeight)
     ELSE [original |-> skill, normalized |-> cleanSkill, category |-> "concept",
           expanded |-> <<cleanSkill>>, weight |-> FallbackWeight]

\* normalizeSkill without the return of null for a token empty after the trim.
normalizeSkillKeepingBlank(graph, skill) ==
  LET cleanSkill == ToLowerCase(Trim(skill))
      directMatch == MapGet(graph, cleanSkill)
      aliasMatch == FindAliasMatch(graph, cleanSkill)
      fuzzyMatch == findFuzzyMatch(graph, cleanSkill)
  IN IF directMatch # Null THEN FromNode(skill, directMatch, DirectWeight)
     ELSE IF aliasMatch # Null THEN FromNode(skill, aliasMatch, AliasWeight)
     ELSE IF fuzzyMatch # Null THEN FromNode(skill, fuzzyMatch, FuzzyWeight)
     ELSE [original |-> skill, normalized |-> cleanSkill, category |-> "concept",
           expanded |-> <<cleanSkill>>, weight |-> FallbackWeight]

normalizeSkill(graph, skill) ==
  LET cleanSkill == ToLowerCase(Trim(skill))
      directMatch == MapGet(graph, cleanSkill)
      aliasMatch == FindAliasMatch(graph, cleanSkill)
      fuzzyMatch == findFuzzyMatch(graph, cleanSkill)
  IN IF cleanSkill = "" THEN Null
     ELSE IF directMatch # Null THEN FromNode(skill, directMatch, DirectWeight)
     ELSE IF aliasMatch # Null THEN FromNode(skill, aliasMatch, AliasWeight)
     ELSE IF fuzzyMatch # Null THEN FromNode(skill, fuzzyMatch, FuzzyWeight)
     ELSE [original |-> skill, normalized |-> cleanSkill, category |-> "concept",
           expanded |-> <<cleanSkill>>, weight |-> FallbackWeight]

\* normalizeSkill applied to each element, in order (line 48 of the loop).
ResolveAll(graph, skills) ==
  [i \in 1..Len(skills) |-> normalizeSkill(graph, skills[i])]

\* The entry left as it is when its key comes again.
KeepWeight(entry, normalized) == entry

\* normalizedSkills.get(key)!.weight += normalized.weight
AddWeight(entry, normalized) ==
  [entry EXCEPT !.weight = @ + normalized.weight]

\* One turn of the loop body on the Map normalizedSkills.
Collect(map, normalized) ==
  LET key == ToLowerCase(normalized.normalized)
  IN IF normalized = Null THEN map
     ELSE IF ~MapHas(map, key) THEN MapSet(map, key, normalized)
     ELSE MapSet(map, key, AddWeight(MapGet(map, key), normalized))

RECURSIVE CollectAll(_, _)
CollectAll(map, resolutions) ==
  IF resolutions = <<>> THEN map
  ELSE CollectAll(Collect(map, Head(resolutions)), Tail(resolutions))

\* Lines 45-61 of normalizeSkills: Array.from(normalizedSkills.values()).
NormalizeLoop(graph, skills) == MapValues(CollectAll(<<>>, ResolveAll(graph, skills)))

\* The skill graph had the loop stored the matched node itself in its Map and
\* set the weight on it.
GraphWritingWeights(graph, skills) ==
  LET done == NormalizeLoop(graph, skills)
  IN [i \in 1..Len(graph) |->
        IF \E j \in 1..Len(done) : done[j].normalized = graph[i].value.name
        THEN [key |-> graph[i].key,
              value |-> [name |-> graph[i].value.name,
                         aliases |-> graph[i].value.aliases,
                         category |-> graph[i].value.category,
                         related |-> graph[i].value.related,
                         expanded |-> graph[i].value.expanded,
                         weight |-> DirectWeight]]
        ELSE graph[i]]

\* The skill graph after the loop: the loop writes to its own Map and to the
\* objects normalizeSkill has just built, never to a node.
GraphAfterLoop(graph, skills) == graph

\* getExpandedSkills: a Set filled in order, then Array.from.
RECURSIVE AddAll(_, _)
AddAll(set, items) ==
  IF items = <<>> THEN set
  ELSE AddAll(IF InSeq(Head(items), set) THEN set ELSE Append(set, Head(items)),
              Tail(items))

RECURSIVE ExpandInto(_, _)
ExpandInto(expanded, skills) ==
  IF skills = <<>> THEN expanded
  ELSE ExpandInto(AddAll(expanded, <<Head(skills).normalized>> \o Head(skills).expanded),
                  Tail(skills))

RECURSIVE ConcatAll(_)
ConcatAll(skills) ==
  IF skills = <<>> THEN <<>>
  ELSE <<Head(skills).normalized>> \o Head(skills).expanded \o ConcatAll(Tail(skills))

\* The same values pushed to an array instead of added to a Set.
getExpandedSkillsAsArray(skills) == ConcatAll(skills)

getExpandedSkills(skills) == ExpandInto(<<>>, skills)

\* getSkillStats
Categories == {"language", "framework", "library", "tool", "concept", "platform"}

getSkillStats(graph) ==
  LET seen == {graph[i].value.category : i \in 1..Len(graph)}
  IN [totalSkills |-> Len(graph),
      categories |-> [c \in seen |->
                        Cardinality({i \in 1..Len(graph) : graph[i].value.category = c})]]

(***************************************************************************)
(* CacheManager                                                            *)
(***************************************************************************)
\* Array.prototype.sort() with the default comparator.
RECURSIVE Insert(_, _)
Insert(x, sorted) ==
  IF sorted = <<>> THEN <<x>>
  ELSE IF StrLess(x, Head(sorted)) THEN <<x>> \o sorted
  ELSE <<Head(sorted)>> \o Insert(x, Tail(sorted))

RECURSIVE Sort(_)
Sort(seq) ==
  IF seq = <<>> THEN <<>>
  ELSE Insert(seq[Len(seq)], Sort(SubSeq(seq, 1, Len(seq) - 1)))

\* Array.prototype.join(',')
RECURSIVE Join(_)
Join(seq) ==
  IF seq = <<>> THEN ""
  ELSE IF Len(seq) = 1 THEN seq[1]
  ELSE seq[1] \o "," \o Join(Tail(seq))

\* Buffer.from(s).toString('base64')
Base64Alphabet == Upper \o Lower \o Digits \o "+/"
Sextet(n) == CharAt(Base64Alphabet, n + 1)

RECURSIVE Base64(_)
Base64(s) ==
  IF s = "" THEN ""
  ELSE LET b1 == CharCode(CharAt(s, 1))
           b2 == IF Len(s) >= 2 THEN CharCode(CharAt(s, 2)) ELSE 0
           b3 == IF Len(s) >= 3 THEN CharCode(CharAt(s, 3)) ELSE 0
           n == b1 * 65536 + b2 * 256 + b3
       IN Sextet(n \div 262144) \o Sextet((n \div 4096) % 64)
            \o (IF Len(s) >= 2 THEN Sextet((n \div 64) % 64) ELSE "=")
            \o (IF Len(s) >= 3 THEN Sextet(n % 64) ELSE "=")
            \o Base64(SubSeq(s, 4, Len(s)))

\* getSkillKey; the caller's array is left sorted (Sort above).
getSkillKey(skills) == "skills:" \o Base64(Join(Sort(skills)))

\* JSON text of a weight counted in tenths, and back.
RECURSIVE DecimalText(_)
DecimalText(n) ==
  IF n < 10 THEN CharAt(Digits, n + 1)
  ELSE DecimalText(n \div 10) \o CharAt(Digits, (n % 10) + 1)

RECURSIVE DecimalValue(_)
DecimalValue(s) ==
  IF s = "" THEN 0
  ELSE 10 * DecimalValue(SubSeq(s, 1, Len(s) - 1)) + IndexOf(Digits, CharAt(s, Len(s))) - 1

NumberText(tenths) ==
  IF tenths % 10 = 0 THEN DecimalText(tenths \div 10)
  ELSE DecimalText(tenths \div 10) \o "." \o DecimalText(tenths % 10)

NumberValue(text) ==
  LET dot == IndexOf(text, ".")
  IN IF dot = 0 THEN 10 * DecimalValue(text)
     ELSE 10 * DecimalValue(SubSeq(text, 1, dot - 1))
            + DecimalValue(SubSeq(text, dot + 1, Len(text)))

\* JSON.stringify of a NormalizedSkill[]: the own fields of each entry, strings
\* and arrays of strings as they are, the number as its decimal text.
JsonStringify(data) ==
  [i \in 1..Len(data) |->
     [original |-> data[i].original, normalized |-> data[i].normalized,
      category |-> data[i].category, expanded |-> data[i].expanded,
      weight |-> NumberText(data[i].weight)]]

JsonParse(text) ==
  [i \in 1..Len(text) |->
     [original |-> text[i].original, normalized |-> text[i].normalized,
      category |-> text[i].category, expanded |-> text[i].expanded,
      weight |-> NumberValue(text[i].weight)]]

(***************************************************************************)
(* The normaliser behind its cache, called by concurrent request handlers  *)
(***************************************************************************)
MaxSkills == 2

\* The handlers in flight (api/test-skills: normalizeSkills, then
\* getExpandedSkills, then getSkillStats).
Callers == {"c1", "c2"}

\* The raw tokens of a run are drawn from one of these vocabularies.
Vocabularies ==
  { {"a", "a,a"},
    {"React", "reactjs"},
    {"vue3", " "},
    {"ts.js", "go"},
    {"html5", ""},
    {"py", "python3"},
    {"Nodes", "k8"} }

ListsOver(tokens) == UNION {[1..n -> tokens] : n \in 0..MaxSkills}

\* The argument of normalizeSkills: null/undefined, or an array.
Arguments(tokens) ==
  {[null |-> TRUE, list |-> <<>>]}
    \cup {[null |-> FALSE, list |-> l] : l \in ListsOver(tokens)}

NoArgument == [null |-> TRUE, list |-> <<>>]

VARIABLES
  skillGraph,   \* SkillNormalizer.skillGraph
  redis,        \* the key-value store behind CacheManager: key -> stored text
  vocabulary,   \* the tokens the callers of this run use
  pc,           \* per caller: where its handler stands
  input,        \* per caller: the argument as it was passed
  skills,       \* per caller: the array it passed, as it is now
  key,          \* per caller: the cache key of the pending redis command
  resolved,     \* per caller: what normalizeSkill returned for each element
  result,       \* per caller: `result` of normalizeSkills
  ret,          \* per caller: what normalizeSkills returned
  path,         \* per caller: "hit", "miss" or "empty", once returned
  expandedOut,  \* per caller: what getExpandedSkills returned
  statsOut,     \* per caller: what getSkillStats returned
  request,      \* the arguments of the call of scoreRepository under way
  scoring,      \* "idle", "pending" while that call runs, "done" after, "explained"
  score,        \* what scoreRepository returned
  usedWeights,  \* `weights` of that call of scoreRepository
  explanation,  \* what getScoringExplanation returned for that score
  batch,        \* the arguments of a call of scoreRepositories
  ranking,      \* "idle", "pending" while that call runs, "done" after, "responded"
  scoredRepos,  \* `scoredRepos` of scoreRepositories as repos.map built it
  sortedRepos,  \* the same array after the sort by final score
  randomizedRepos,  \* what randomizeCloseScores returned
  ranked,       \* what scoreRepositories returned
  response      \* the search route's parameters and the repositories of its response

normVars == <<skillGraph, redis, vocabulary, pc, input, skills, key, resolved,
              result, ret, path, expandedOut, statsOut>>

callVars == <<request, scoring, score, usedWeights, explanation>>

rankVars == <<batch, ranking, scoredRepos, sortedRepos, randomizedRepos, ranked,
              response>>

scoreVars == <<callVars, rankVars>>

NoStats == [totalSkills |-> 0, categories |-> <<>>]

\* The normaliser after construction, no call made.
NormalizerConstructed ==
  /\ skillGraph = initializeSkillGraph
  /\ redis = <<>>
  /\ pc = [p \in Callers |-> "idle"]
  /\ input = [p \in Callers |-> NoArgument]
  /\ skills = [p \in Callers |-> <<>>]
  /\ key = [p \in Callers |-> ""]
  /\ resolved = [p \in Callers |-> <<>>]
  /\ result = [p \in Callers |-> <<>>]
  /\ ret = [p \in Callers |-> <<>>]
  /\ path = [p \in Callers |-> "none"]
  /\ expandedOut = [p \in Callers |-> <<>>]
  /\ statsOut = [p \in Callers |-> NoStats]

\* No call of scoreRepositories is made.
RankerIdle ==
  /\ batch = Null
  /\ ranking = "idle"
  /\ scoredRepos = <<>>
  /\ sortedRepos = <<>>
  /\ randomizedRepos = <<>>
  /\ ranked = <<>>
  /\ response = Null

\* No call of the scorer is made.
ScorerIdle ==
  /\ request = Null
  /\ scoring = "idle"
  /\ score = Null
  /\ usedWeights = Null
  /\ explanation = ""
  /\ RankerIdle

InitNormalizer ==
  /\ NormalizerConstructed
  /\ vocabulary \in Vocabularies
  /\ ScorerIdle

\* if (!skills || skills.length === 0)
EmptyInput(arg) == arg.null \/ Len(arg.list) = 0

\* normalizeSkills up to its first suspension: the guard of line 37, then
\* getSkillNormalization, which sorts the array for the key and awaits redis.get.
NormalizeSkillsCall(p, arg) ==
  /\ pc[p] = "idle"
  /\ input' = [input EXCEPT ![p] = arg]
  /\ IF EmptyInput(arg)
     THEN /\ pc' = [pc EXCEPT ![p] = "returned"]
          /\ ret' = [ret EXCEPT ![p] = <<>>]
          /\ path' = [path EXCEPT ![p] = "empty"]
          /\ UNCHANGED <<skills, key>>
     ELSE /\ pc' = [pc EXCEPT ![p] = "awaitGet"]
          /\ skills' = [skills EXCEPT ![p] = Sort(arg.list)]
          /\ key' = [key EXCEPT ![p] = getSkillKey(arg.list)]
          /\ UNCHANGED <<ret, path>>
  /\ UNCHANGED <<skillGraph, redis, vocabulary, resolved, result, expandedOut, statsOut>>
  /\ UNCHANGED scoreVars

\* redis.get answers with the stored text: getSkillNormalization parses it and
\* normalizeSkills returns it.
CacheGetHit(p) ==
  /\ pc[p] = "awaitGet"
  /\ key[p] \in DOMAIN redis
  /\ ret' = [ret EXCEPT ![p] = JsonParse(redis[key[p]])]
  /\ path' = [path EXCEPT ![p] = "hit"]
  /\ pc' = [pc EXCEPT ![p] = "returned"]
  /\ UNCHANGED <<skillGraph, redis, vocabulary, input, skills, key, resolved,
                 result, expandedOut, statsOut>>
  /\ UNCHANGED scoreVars

\* redis.get answers null (no such key, or it expired) or fails (caught, null):
\* the loop runs over the array, then setSkillNormalization computes the key
\* again and awaits redis.setex.
CacheGetMiss(p) ==
  /\ pc[p] = "awaitGet"
  /\ resolved' = [resolved EXCEPT ![p] = ResolveAll(skillGraph, skills[p])]
  /\ result' = [result EXCEPT ![p] = NormalizeLoop(skillGraph, skills[p])]
  /\ skillGraph' = GraphAfterLoop(skillGraph, skills[p])
  /\ skills' = [skills EXCEPT ![p] = Sort(skills[p])]
  /\ key' = [key EXCEPT ![p] = getSkillKey(skills[p])]
  /\ pc' = [pc EXCEPT ![p] = "awaitSet"]
  /\ UNCHANGED <<redis, vocabulary, input, ret, path, expandedOut, statsOut>>
  /\ UNCHANGED scoreVars

\* redis.setex stores the text under the key; normalizeSkills returns `result`.
CacheSetStored(p) ==
  /\ pc[p] = "awaitSet"
  /\ redis' = (key[p] :> JsonStringify(result[p])) @@ redis
  /\ ret' = [ret EXCEPT ![p] = result[p]]
  /\ path' = [path EXCEPT ![p] = "miss"]
  /\ pc' = [pc EXCEPT ![p] = "returned"]
  /\ UNCHANGED <<skillGraph, vocabulary, input, skills, key, resolved, result,
                 expandedOut, statsOut>>
  /\ UNCHANGED scoreVars

\* redis.setex fails: setSkillNormalization catches the error.
CacheSetFailed(p) ==
  /\ pc[p] = "awaitSet"
  /\ ret' = [ret EXCEPT ![p] = result[p]]
  /\ path' = [path EXCEPT ![p] = "miss"]
  /\ pc' = [pc EXCEPT ![p] = "returned"]
  /\ UNCHANGED <<skillGraph, redis, vocabulary, input, skills, key, resolved,
                 result, expandedOut, statsOut>>
  /\ UNCHANGED scoreVars

\* The entry's TTL (skillTTL) runs out.
KeyExpires(k) ==
  /\ k \in DOMAIN redis
  /\ redis' = [j \in DOMAIN redis \ {k} |-> redis[j]]
  /\ UNCHANGED <<skillGraph, vocabulary, pc, input, skills, key, resolved, result,
                 ret, path, expandedOut, statsOut>>
  /\ UNCHANGED scoreVars

GetExpandedSkillsCall(p) ==
  /\ pc[p] = "returned"
  /\ expandedOut' = [expandedOut EXCEPT ![p] = getExpandedSkills(ret[p])]
  /\ pc' = [pc EXCEPT ![p] = "expanded"]
  /\ UNCHANGED <<skillGraph, redis, vocabulary, input, skills, key, resolved,
                 result, ret, path, statsOut>>
  /\ UNCHANGED scoreVars

GetSkillStatsCall(p) ==
  /\ pc[p] = "expanded"
  /\ statsOut' = [statsOut EXCEPT ![p] = getSkillStats(skillGraph)]
  /\ pc' = [pc EXCEPT ![p] = "finished"]
  /\ UNCHANGED <<skillGraph, redis, vocabulary, input, skills, key, resolved,
                 result, ret, path, expandedOut>>
  /\ UNCHANGED scoreVars

NextNormalizer ==
  \/ \E p \in Callers : \E arg \in Arguments(vocabulary) : NormalizeSkillsCall(p, arg)
  \/ \E p \in Callers : CacheGetHit(p)
  \/ \E p \in Callers : CacheGetMiss(p)
  \/ \E p \in Callers : CacheSetStored(p)
  \/ \E p \in Callers : CacheSetFailed(p)
  \/ \E k \in DOMAIN redis : KeyExpires(k)
  \/ \E p \in Callers : GetExpandedSkillsCall(p)
  \/ \E p \in Callers : GetSkillStatsCall(p)

(***************************************************************************)
(* RepositoryScorer                                                        *)
(*                                                                         *)
(* A number that is a fraction in the code is fixed-point, counted in      *)
(* millionths (1.0 is One); a quotient or product is cut to the millionth. *)
(* Weights are whole hundredths (0.3 is 30).  An instant is a whole number *)
(* of hours, the instant a call starts being 0, so that a timestamp in the *)
(* past is negative.  An absent string (null, undefined) is "", an absent  *)
(* array is <<>> and an absent object is Null: the scorer tests all three  *)
(* for truthiness or length only.                                          *)
(***************************************************************************)
One == 1000000

Min(a, b) == IF a <= b THEN a ELSE b

Max(a, b) == IF a >= b THEN a ELSE b

\* The literal n/100.
Hundredths(n) == n * (One \div 100)

\* n / d for whole numbers n and d.
Ratio(n, d) == (n \div d) * One + ((n % d) * One) \div d

\* x * w for a weight w in hundredths.
Weighted(x, w) == (x * w) \div 100

\* (1000 * 60 * 60 * 24) milliseconds, in hours.
Days(n) == n * 24

\* Math.log10 on the star counts of the model, to the millionth.
Log10Table ==
  << <<1001, 3000434>>, <<2000, 3301029>>, <<2001, 3301247>>, <<5000, 3698970>>,
     <<5001, 3699056>>, <<10000, 4000000>>, <<10001, 4000043>>, <<20000, 4301029>>,
     <<20001, 4301051>>, <<50000, 4698970>>, <<50001, 4698978>> >>

Log10(n) ==
  Log10Table[CHOOSE i \in 1..Len(Log10Table) : Log10Table[i][1] = n][2]

ModeWeightNames == {"relevance", "quality", "opportunity"}

getModeWeights(mode) ==
  IF mode = "learning" THEN [relevance |-> 30, quality |-> 50, opportunity |-> 20]
  ELSE IF mode = "quick-wins" THEN [relevance |-> 20, quality |-> 10, opportunity |-> 70]
  ELSE [relevance |-> 60, quality |-> 30, opportunity |-> 10]

\* The spread taking the caller's object whole when it has any field: a field
\* the caller left out is then 0.
SpreadWeightsReplacingAll(modeWeights, weights) ==
  IF weights.set = {} THEN modeWeights
  ELSE [k \in {"relevance", "quality", "opportunity"} |->
          IF k \in weights.set THEN weights[k] ELSE 0]

\* { ...modeWeights, ...options.weights }: options.weights is a record whose
\* field `set` names the fields the caller supplied.
SpreadWeights(modeWeights, weights) ==
  [k \in ModeWeightNames |-> IF k \in weights.set THEN weights[k] ELSE modeWeights[k]]

\* arr.map(s => s.toLowerCase())
LowerAll(seq) == SubSeq([i \in 1..Len(seq) |-> ToLowerCase(seq[i])], 1, Len(seq))

\* skills.flatMap(skill => skill.expanded)
RECURSIVE FlatExpanded(_)
FlatExpanded(userSkills) ==
  IF userSkills = <<>> THEN <<>>
  ELSE Head(userSkills).expanded \o FlatExpanded(Tail(userSkills))

\* skills.flatMap(skill => [skill.normalized, ...skill.expanded])
RECURSIVE FlatTerms(_)
FlatTerms(userSkills) ==
  IF userSkills = <<>> THEN <<>>
  ELSE <<Head(userSkills).normalized>> \o Head(userSkills).expanded \o FlatTerms(Tail(userSkills))

\* arr.filter(pred).length, the indices that pass being given.
Count(indices) == Cardinality(indices)

Languages ==
  << "javascript", "typescript", "python", "java", "c++", "c#", "go", "rust",
     "php", "ruby", "swift", "kotlin", "scala", "clojure", "haskell", "elixir",
     "dart", "r", "matlab", "perl", "lua", "shell", "powershell", "html", "css",
     "scss", "sass", "less", "vue", "react", "angular", "svelte" >>

isLanguage(str) == InSeq(ToLowerCase(str), Languages)

calculateLanguageMatch(repo, userSkills) ==
  IF repo.language = "" \/ Len(userSkills) = 0 THEN 0
  ELSE
    LET repoLanguage == ToLowerCase(repo.language)
        expanded == FlatExpanded(userSkills)
    IN IF \E i \in 1..Len(userSkills) :
            /\ userSkills[i].category = "language"
            /\ ToLowerCase(userSkills[i].normalized) = repoLanguage
       THEN One
       ELSE IF \E i \in 1..Len(expanded) :
                 isLanguage(expanded[i]) /\ ToLowerCase(expanded[i]) = repoLanguage
       THEN Hundredths(80)
       ELSE IF \E i \in 1..Len(expanded) :
                 Includes(expanded[i], repoLanguage) \/ Includes(repoLanguage, expanded[i])
       THEN Hundredths(60)
       ELSE 0

calculateTopicMatch(repo, userSkills) ==
  IF Len(repo.topics) = 0 \/ Len(userSkills) = 0 THEN 0
  ELSE
    LET repoTopics == LowerAll(repo.topics)
        skillTopics == LowerAll(FlatTerms(userSkills))
        matches == Count({i \in 1..Len(repoTopics) :
                           \E j \in 1..Len(skillTopics) :
                             \/ repoTopics[i] = skillTopics[j]
                             \/ Includes(repoTopics[i], skillTopics[j])
                             \/ Includes(skillTopics[j], repoTopics[i])})
        matchRatio == Ratio(matches, Max(Len(repoTopics), 1))
    IN Min(matchRatio * 2, One)

calculateReadmeMatch(repo, userSkills) ==
  IF repo.description = "" \/ Len(userSkills) = 0 THEN 0
  ELSE
    LET description == ToLowerCase(repo.description)
        skillKeywords == LowerAll(FlatTerms(userSkills))
        matches == Count({i \in 1..Len(skillKeywords) :
                           Includes(description, skillKeywords[i])})
        matchRatio == Ratio(matches, Len(skillKeywords))
    IN Min(matchRatio * 3, One)

\* calculateStarsScore with the linear part not held at 0.7.
calculateStarsScoreLinear(stars) ==
  IF stars = 0 THEN 0
  ELSE IF stars > 20000 THEN Hundredths(50)
  ELSE IF stars > 5000 THEN Hundredths(60)
  ELSE IF stars > 1000 THEN Hundredths(70)
  ELSE Ratio(stars, 1000)

calculateStarsScore(stars) ==
  IF stars = 0 THEN 0
  ELSE IF stars > 20000 THEN Hundredths(50)
  ELSE IF stars > 5000 THEN Hundredths(60)
  ELSE IF stars > 1000 THEN Hundredths(70)
  ELSE Min(Ratio(stars, 1000), Hundredths(70))

\* now - Math.max(updatedAt, pushedAt), in hours.
HoursSinceActivity(repo, now) == now - Max(repo.updated_at, repo.pushed_at)

calculateActivityScore(repo, now) ==
  LET sinceActivity == HoursSinceActivity(repo, now)
      baseScore == IF sinceActivity <= Days(1) THEN One
                   ELSE IF sinceActivity <= Days(7) THEN Hundredths(95)
                   ELSE IF sinceActivity <= Days(30) THEN Hundredths(80)
                   ELSE IF sinceActivity <= Days(90) THEN Hundredths(60)
                   ELSE IF sinceActivity <= Days(365) THEN Hundredths(30)
                   ELSE Hundredths(10)
      bonus == IF sinceActivity <= Days(3) THEN Hundredths(5) ELSE 0
  IN Min(baseScore + bonus, One)

calculateDocumentationScore(repo) ==
  LET documented ==
        (IF repo.description # "" /\ Len(repo.description) > 20 THEN Hundredths(30) ELSE 0)
        + (IF repo.homepage # "" THEN Hundredths(20) ELSE 0)
        + (IF repo.license # Null /\ repo.license.name # "Other" THEN Hundredths(20) ELSE 0)
        + (IF Len(repo.topics) > 0 THEN Hundredths(10) ELSE 0)
        + (IF repo.goodFirstIssues > 0 THEN Hundredths(20) ELSE 0)
  IN Min(documented, One)

calculateIssueScore(repo) ==
  LET totalIssues == repo.open_issues_count
      goodFirstIssues == repo.goodFirstIssues
      issueDensity == Ratio(goodFirstIssues, totalIssues)
      baseScore == IF issueDensity >= Hundredths(10) THEN One
                   ELSE IF issueDensity >= Hundredths(5) THEN Hundredths(80)
                   ELSE IF issueDensity >= Hundredths(2) THEN Hundredths(60)
                   ELSE IF goodFirstIssues > 0 THEN Hundredths(40)
                   ELSE Hundredths(20)
      activityBonus == Min(Ratio(totalIssues, 20), Hundredths(10))
  IN IF totalIssues = 0 THEN Hundredths(50)
     ELSE Min(baseScore + activityBonus, One)

calculateContributorScore(repo) ==
  LET forkScore == Weighted(Min(Ratio(repo.forks_count, 100), One), 60)
      starScore == Weighted(Min(Ratio(repo.stargazers_count, 1000), One), 40)
  IN forkScore + starScore

\* The enriched-data scorers.  frequency (commits a week), recency (days),
\* responseTime (hours), learningResources, dependencyCount and
\* outdatedDependencies are whole numbers; the other fields are fractions.
calculateCommitActivityScore(repo) ==
  IF repo.enrichedData = Null \/ repo.enrichedData.commitAnalysis = Null THEN 0
  ELSE
    LET a == repo.enrichedData.commitAnalysis
        frequencyScore == Min(Ratio(a.frequency, 5), One)
        recencyScore == Max(0, One - Ratio(a.recency, 30))
        activityScore == Weighted(frequencyScore, 30)
                         + Weighted(recencyScore, 30)
                         + Weighted(a.contributorDistribution, 20)
                         + Weighted(a.commitMessageQuality, 10)
                         + Weighted(a.branchActivity, 10)
    IN Min(activityScore, One)

calculateIssueResponseScore(repo) ==
  IF repo.enrichedData = Null \/ repo.enrichedData.issueAnalysis = Null THEN 0
  ELSE
    LET a == repo.enrichedData.issueAnalysis
        responseScore == Max(0, One - Ratio(a.responseTime, 24))
        responseQualityScore == Weighted(responseScore, 30)
                                + Weighted(a.resolutionRate, 25)
                                + Weighted(a.maintainerActivity, 20)
                                + Weighted(a.communityEngagement, 15)
                                + Weighted(a.issueQuality, 5)
                                + Weighted(a.labelUsage, 5)
    IN Min(responseQualityScore, One)

calculateDependencyHealthScore(repo) ==
  IF repo.enrichedData = Null \/ repo.enrichedData.dependencyAnalysis = Null THEN 0
  ELSE
    LET a == repo.enrichedData.dependencyAnalysis
        outdatedRatio == IF a.dependencyCount > 0
                         THEN Ratio(a.outdatedDependencies, a.dependencyCount) ELSE 0
        outdatedScore == Max(0, One - outdatedRatio)
        dependencyScore == Weighted(a.healthScore, 30)
                           + Weighted(a.securityScore, 25)
                           + Weighted(a.updateFrequency, 15)
                           + Weighted(outdatedScore, 20)
                           + Weighted(a.licenseCompatibility, 10)
    IN Min(dependencyScore, One)

calculateReadmeQualityScore(repo) ==
  IF repo.enrichedData = Null \/ repo.enrichedData.readmeAnalysis = Null THEN 0
  ELSE
    LET a == repo.enrichedData.readmeAnalysis
        learningScore == Min(Ratio(a.learningResources, 5), One)
        setupScore == Max(0, One - a.setupDifficulty)
        readmeScore == Weighted(a.contentQuality, 50)
                       + Weighted(learningScore, 30)
                       + Weighted(setupScore, 20)
    IN Min(readmeScore, One)

\* readmeSkills.some(r => r.toLowerCase().includes(skill) || skill.includes(r.toLowerCase()))
SomeReadmeSkill(readmeSkills, skill) ==
  \E k \in 1..Len(readmeSkills) :
    \/ Includes(ToLowerCase(readmeSkills[k]), skill)
    \/ Includes(skill, ToLowerCase(readmeSkills[k]))

\* matches counts 1 for a direct match and 0.5 for an expanded one: the
\* quotient is taken over the doubled count.
calculateSkillMatchScore(repo, userSkills) ==
  IF \/ repo.enrichedData = Null
     \/ repo.enrichedData.readmeAnalysis = Null
     \/ Len(userSkills) = 0
  THEN 0
  ELSE
    LET readmeSkills == repo.enrichedData.readmeAnalysis.skillKeywords
        normalizedNames == [i \in 1..Len(userSkills) |-> ToLowerCase(userSkills[i].normalized)]
        userExpandedSkills == LowerAll(FlatExpanded(userSkills))
        direct == Count({i \in 1..Len(normalizedNames) :
                          SomeReadmeSkill(readmeSkills, normalizedNames[i])})
        expanded == Count({i \in 1..Len(userExpandedSkills) :
                            SomeReadmeSkill(readmeSkills, userExpandedSkills[i])})
        totalSkills == Len(normalizedNames)
    IN Min(Ratio(2 * direct + expanded, 2 * totalSkills), One)

calculateRelevanceScore(repo, userSkills, options) ==
  LET weights ==
        IF options.mode = "learning"
        THEN [language |-> 20, topic |-> 40, readme |-> 20, skillMatch |-> 20]
        ELSE IF options.mode = "quick-wins"
        THEN [language |-> 20, topic |-> 20, readme |-> 30, skillMatch |-> 30]
        ELSE [language |-> 30, topic |-> 30, readme |-> 20, skillMatch |-> 20]
  IN Weighted(calculateLanguageMatch(repo, userSkills), weights.language)
     + Weighted(calculateTopicMatch(repo, userSkills), weights.topic)
     + Weighted(calculateReadmeMatch(repo, userSkills), weights.readme)
     + Weighted(calculateSkillMatchScore(repo, userSkills), weights.skillMatch)

\* calculateQualityScore before its return statement, with the goldilocks
\* boost given to every repository of at most 500 stars.
QualityWithBoostsFromZeroStars(repo, options, now) ==
  LET weights ==
        IF options.mode = "learning"
        THEN [stars |-> 25, activity |-> 15, documentation |-> 25,
              commitActivity |-> 15, dependencyHealth |-> 10, readmeQuality |-> 10]
        ELSE IF options.mode = "quick-wins"
        THEN [stars |-> 40, activity |-> 25, documentation |-> 10,
              commitActivity |-> 15, dependencyHealth |-> 5, readmeQuality |-> 5]
        ELSE [stars |-> 30, activity |-> 20, documentation |-> 15,
              commitActivity |-> 15, dependencyHealth |-> 10, readmeQuality |-> 10]
      qualityScore ==
        Weighted(calculateStarsScore(repo.stargazers_count), weights.stars)
        + Weighted(calculateActivityScore(repo, now), weights.activity)
        + Weighted(calculateDocumentationScore(repo), weights.documentation)
        + Weighted(calculateCommitActivityScore(repo), weights.commitActivity)
        + Weighted(calculateDependencyHealthScore(repo), weights.dependencyHealth)
        + Weighted(calculateReadmeQualityScore(repo), weights.readmeQuality)
      goldilocks == IF repo.stargazers_count <= 500 THEN Hundredths(10) ELSE 0
      forkBoost == IF repo.forks_count > 0
                   THEN Min(Ratio(repo.forks_count, 20), Hundredths(5)) ELSE 0
  IN qualityScore + goldilocks + forkBoost

\* calculateQualityScore before its return statement: the weighted sum with
\* the goldilocks boost and the fork boost added.
QualityWithBoosts(repo, options, now) ==
  LET weights ==
        IF options.mode = "learning"
        THEN [stars |-> 25, activity |-> 15, documentation |-> 25,
              commitActivity |-> 15, dependencyHealth |-> 10, readmeQuality |-> 10]
        ELSE IF options.mode = "quick-wins"
        THEN [stars |-> 40, activity |-> 25, documentation |-> 10,
              commitActivity |-> 15, dependencyHealth |-> 5, readmeQuality |-> 5]
        ELSE [stars |-> 30, activity |-> 20, documentation |-> 15,
              commitActivity |-> 15, dependencyHealth |-> 10, readmeQuality |-> 10]
      qualityScore ==
        Weighted(calculateStarsScore(repo.stargazers_count), weights.stars)
        + Weighted(calculateActivityScore(repo, now), weights.activity)
        + Weighted(calculateDocumentationScore(repo), weights.documentation)
        + Weighted(calculateCommitActivityScore(repo), weights.commitActivity)
        + Weighted(calculateDependencyHealthScore(repo), weights.dependencyHealth)
        + Weighted(calculateReadmeQualityScore(repo), weights.readmeQuality)
      goldilocks == IF repo.stargazers_count >= 50 /\ repo.stargazers_count <= 500
                    THEN Hundredths(10) ELSE 0
      forkBoost == IF repo.forks_count > 0
                   THEN Min(Ratio(repo.forks_count, 20), Hundredths(5)) ELSE 0
  IN qualityScore + goldilocks + forkBoost

\* The same without `Math.min(qualityScore, 1.0)`.
calculateQualityScoreUncapped(repo, options, now) == QualityWithBoosts(repo, options, now)

calculateQualityScore(repo, options, now) == Min(QualityWithBoosts(repo, options, now), One)

calculateOpportunityScore(repo, options) ==
  LET weights ==
        IF options.mode = "learning"
        THEN [issues |-> 60, contributors |-> 20, response |-> 20]
        ELSE IF options.mode = "quick-wins"
        THEN [issues |-> 60, contributors |-> 10, response |-> 30]
        ELSE [issues |-> 50, contributors |-> 30, response |-> 20]
  IN Weighted(calculateIssueScore(repo), weights.issues)
     + Weighted(calculateContributorScore(repo), weights.contributors)
     + Weighted(calculateIssueResponseScore(repo), weights.response)

\* repo.description && repo.description.toLowerCase().includes(word)
DescriptionIncludes(repo, word) ==
  repo.description # "" /\ Includes(ToLowerCase(repo.description), word)

\* repo.topics && repo.topics.some(topic => list.includes(topic.toLowerCase()))
SomeTopicIn(repo, list) ==
  \E i \in 1..Len(repo.topics) : InSeq(ToLowerCase(repo.topics[i]), list)

\* The bonus the switch of applyModeBonuses adds up; no case matches an
\* absent mode.
ModeBonus(repo, options, now) ==
  LET sinceUpdate == now - repo.updated_at
      sinceCreated == now - repo.created_at
  IN IF options.mode = "learning" THEN
       (IF repo.goodFirstIssues > 10 THEN Hundredths(30)
        ELSE IF repo.goodFirstIssues > 5 THEN Hundredths(20)
        ELSE IF repo.goodFirstIssues > 0 THEN Hundredths(10)
        ELSE 0)
       + (IF DescriptionIncludes(repo, "tutorial") THEN Hundredths(15) ELSE 0)
       + (IF DescriptionIncludes(repo, "example") THEN Hundredths(15) ELSE 0)
       + (IF DescriptionIncludes(repo, "learn") THEN Hundredths(10) ELSE 0)
       + (IF DescriptionIncludes(repo, "beginner") THEN Hundredths(10) ELSE 0)
       + (IF SomeTopicIn(repo, <<"tutorial", "example", "learning", "beginner",
                                 "documentation", "education">>)
          THEN Hundredths(20) ELSE 0)
       + (IF repo.description # "" /\ Len(repo.description) > 100
          THEN Hundredths(10) ELSE 0)
     ELSE IF options.mode = "quick-wins" THEN
       (IF repo.goodFirstIssues > 0 THEN Hundredths(40) ELSE 0)
       + (IF repo.open_issues_count >= 5 /\ repo.open_issues_count <= 50
          THEN Hundredths(30)
          ELSE IF repo.open_issues_count > 50 /\ repo.open_issues_count <= 100
          THEN Hundredths(20)
          ELSE IF repo.open_issues_count > 100 /\ repo.open_issues_count <= 200
          THEN Hundredths(10)
          ELSE 0)
       + (IF repo.stargazers_count >= 50 /\ repo.stargazers_count <= 2000
          THEN Hundredths(20)
          ELSE IF repo.stargazers_count > 2000 /\ repo.stargazers_count <= 5000
          THEN Hundredths(10)
          ELSE 0)
       + (IF SomeTopicIn(repo, <<"good-first-issue", "help-wanted", "hacktoberfest",
                                 "contribution">>)
          THEN Hundredths(30) ELSE 0)
       + (IF sinceUpdate <= Days(7) THEN Hundredths(20)
          ELSE IF sinceUpdate <= Days(30) THEN Hundredths(10)
          ELSE 0)
     ELSE IF options.mode = "profile-building" THEN
       (IF repo.stargazers_count > 5000 THEN Hundredths(40)
        ELSE IF repo.stargazers_count > 1000 THEN Hundredths(30)
        ELSE IF repo.stargazers_count > 500 THEN Hundredths(20)
        ELSE IF repo.stargazers_count > 100 THEN Hundredths(10)
        ELSE 0)
       + (IF SomeTopicIn(repo, <<"popular", "trending", "awesome", "production",
                                 "enterprise">>)
          THEN Hundredths(20) ELSE 0)
       + (IF DescriptionIncludes(repo, "production") THEN Hundredths(15) ELSE 0)
       + (IF DescriptionIncludes(repo, "enterprise") THEN Hundredths(15) ELSE 0)
       + (IF DescriptionIncludes(repo, "framework") THEN Hundredths(10) ELSE 0)
       + (IF DescriptionIncludes(repo, "library") THEN Hundredths(10) ELSE 0)
       + (IF sinceCreated > Days(365) THEN Hundredths(10) ELSE 0)
     ELSE 0

\* calculateSizePenalty without the flat penalty above 10000 stars.
calculateSizePenaltyWithoutFlat(repo) ==
  (IF repo.open_issues_count > 5000 THEN Hundredths(30)
   ELSE IF repo.open_issues_count > 1000 THEN Hundredths(15)
   ELSE 0)
  + (IF repo.stargazers_count > 1000
     THEN Weighted(Log10(repo.stargazers_count), 8) ELSE 0)

calculateSizePenalty(repo) ==
  (IF repo.open_issues_count > 5000 THEN Hundredths(30)
   ELSE IF repo.open_issues_count > 1000 THEN Hundredths(15)
   ELSE 0)
  + (IF repo.stargazers_count > 1000
     THEN Weighted(Log10(repo.stargazers_count), 8) ELSE 0)
  + (IF repo.stargazers_count > 10000 THEN Hundredths(15) ELSE 0)

calculateModePenalties(repo, options, now) ==
  LET sinceUpdate == now - repo.updated_at
      sinceCreated == now - repo.created_at
      universal == IF repo.stargazers_count < 10 THEN Hundredths(30)
                   ELSE IF repo.stargazers_count < 20 THEN Hundredths(15)
                   ELSE 0
  IN universal +
     (IF options.mode = "learning" THEN
        (IF repo.goodFirstIssues = 0 THEN Hundredths(50) ELSE 0)
        + (IF repo.description = "" \/ Len(repo.description) < 50
           THEN Hundredths(30) ELSE 0)
        + (IF sinceUpdate > Days(365) THEN Hundredths(20) ELSE 0)
      ELSE IF options.mode = "quick-wins" THEN
        (IF repo.open_issues_count > 500 THEN Hundredths(60)
         ELSE IF repo.open_issues_count > 200 THEN Hundredths(40)
         ELSE IF repo.open_issues_count > 100 THEN Hundredths(20)
         ELSE 0)
        + (IF repo.open_issues_count = 0 THEN Hundredths(50) ELSE 0)
        + (IF repo.stargazers_count > 10000 THEN Hundredths(30) ELSE 0)
        + (IF sinceUpdate > Days(180) THEN Hundredths(30) ELSE 0)
      ELSE IF options.mode = "profile-building" THEN
        (IF repo.stargazers_count < 50 THEN Hundredths(50)
         ELSE IF repo.stargazers_count < 100 THEN Hundredths(30)
         ELSE IF repo.stargazers_count < 200 THEN Hundredths(10)
         ELSE 0)
        + (IF sinceCreated < Days(30) THEN Hundredths(30)
           ELSE IF sinceCreated < Days(90) THEN Hundredths(10)
           ELSE 0)
        + (IF repo.stargazers_count > 50000 THEN Hundredths(20) ELSE 0)
      ELSE 0)

\* The same without `Math.max(0, Math.min(..., 1.0))`.
applyModeBonusesUnclamped(baseScore, repo, options, nowPenalties, nowBonus) ==
  baseScore + ModeBonus(repo, options, nowBonus)
    - (calculateSizePenalty(repo) + calculateModePenalties(repo, options, nowPenalties))

\* nowPenalties and nowBonus are what Date.now() returns in
\* calculateModePenalties and in the switch of applyModeBonuses.
applyModeBonuses(baseScore, repo, options, nowPenalties, nowBonus) ==
  LET bonus == ModeBonus(repo, options, nowBonus)
      penalty == calculateSizePenalty(repo)
                 + calculateModePenalties(repo, options, nowPenalties)
  IN Max(0, Min(baseScore + bonus - penalty, One))

\* The same with the product capped at 1.0.
applyFreshnessBoostCapped(baseScore, repo, now) ==
  IF HoursSinceActivity(repo, now) <= Days(7)
  THEN Min((baseScore * 12) \div 10, One)
  ELSE baseScore

applyFreshnessBoost(baseScore, repo, now) ==
  IF HoursSinceActivity(repo, now) <= Days(7)
  THEN (baseScore * 12) \div 10
  ELSE baseScore

\* The reads of the clock in one call of scoreRepository, in the order the
\* call makes them.
ClockReads ==
  <<"calculateQualityScore", "calculateModePenalties", "applyModeBonuses",
    "applyFreshnessBoost", "breakdown">>

\* clock[k] is the instant the k-th read returns.
At(clock, read) == clock[CHOOSE k \in 1..Len(ClockReads) : ClockReads[k] = read]

\* `weights` of scoreRepository: the mode's weights with the caller's fields
\* spread over them.
ResolvedWeights(options) ==
  LET modeWeights == getModeWeights(IF options.mode = "" THEN "profile-building"
                                    ELSE options.mode)
  IN SpreadWeights(modeWeights, options.weights)

\* scoreRepository returning each dimension's weighted contribution in place
\* of the dimension score.
scoreRepositoryReturningWeighted(repo, userSkills, options, clock) ==
  LET weights == ResolvedWeights(options)
      relevanceScore == calculateRelevanceScore(repo, userSkills, options)
      qualityScore == calculateQualityScore(repo, options,
                                            At(clock, "calculateQualityScore"))
      opportunityScore == calculateOpportunityScore(repo, options)
      weightedScore == Weighted(relevanceScore, weights.relevance)
                       + Weighted(qualityScore, weights.quality)
                       + Weighted(opportunityScore, weights.opportunity)
      adjustedScore == applyModeBonuses(weightedScore, repo, options,
                                        At(clock, "calculateModePenalties"),
                                        At(clock, "applyModeBonuses"))
      finalScore == applyFreshnessBoost(adjustedScore, repo,
                                        At(clock, "applyFreshnessBoost"))
  IN [relevance |-> Weighted(relevanceScore, weights.relevance),
      quality |-> Weighted(qualityScore, weights.quality),
      opportunity |-> Weighted(opportunityScore, weights.opportunity),
      final |-> finalScore,
      breakdown |->
        [languageMatch |-> calculateLanguageMatch(repo, userSkills),
         topicMatch |-> calculateTopicMatch(repo, userSkills),
         readmeMatch |-> calculateReadmeMatch(repo, userSkills),
         starsScore |-> calculateStarsScore(repo.stargazers_count),
         activityScore |-> calculateActivityScore(repo, At(clock, "breakdown")),
         documentationScore |-> calculateDocumentationScore(repo),
         issueScore |-> calculateIssueScore(repo),
         contributorScore |-> calculateContributorScore(repo),
         commitActivityScore |-> calculateCommitActivityScore(repo),
         issueResponseScore |-> calculateIssueResponseScore(repo),
         dependencyHealthScore |-> calculateDependencyHealthScore(repo),
         readmeQualityScore |-> calculateReadmeQualityScore(repo),
         skillMatchScore |-> calculateSkillMatchScore(repo, userSkills)]]

scoreRepository(repo, userSkills, options, clock) ==
  LET weights == ResolvedWeights(options)
      relevanceScore == calculateRelevanceScore(repo, userSkills, options)
      qualityScore == calculateQualityScore(repo, options,
                                            At(clock, "calculateQualityScore"))
      opportunityScore == calculateOpportunityScore(repo, options)
      weightedScore == Weighted(relevanceScore, weights.relevance)
                       + Weighted(qualityScore, weights.quality)
                       + Weighted(opportunityScore, weights.opportunity)
      adjustedScore == applyModeBonuses(weightedScore, repo, options,
                                        At(clock, "calculateModePenalties"),
                                        At(clock, "applyModeBonuses"))
      finalScore == applyFreshnessBoost(adjustedScore, repo,
                                        At(clock, "applyFreshnessBoost"))
  IN [relevance |-> relevanceScore,
      quality |-> qualityScore,
      opportunity |-> opportunityScore,
      final |-> finalScore,
      breakdown |->
        [languageMatch |-> calculateLanguageMatch(repo, userSkills),
         topicMatch |-> calculateTopicMatch(repo, userSkills),
         readmeMatch |-> calculateReadmeMatch(repo, userSkills),
         starsScore |-> calculateStarsScore(repo.stargazers_count),
         activityScore |-> calculateActivityScore(repo, At(clock, "breakdown")),
         documentationScore |-> calculateDocumentationScore(repo),
         issueScore |-> calculateIssueScore(repo),
         contributorScore |-> calculateContributorScore(repo),
         commitActivityScore |-> calculateCommitActivityScore(repo),
         issueResponseScore |-> calculateIssueResponseScore(repo),
         dependencyHealthScore |-> calculateDependencyHealthScore(repo),
         readmeQualityScore |-> calculateReadmeQualityScore(repo),
         skillMatchScore |-> calculateSkillMatchScore(repo, userSkills)]]

\* Array.prototype.join(', ')
RECURSIVE JoinPhrases(_)
JoinPhrases(seq) ==
  IF seq = <<>> THEN ""
  ELSE IF Len(seq) = 1 THEN seq[1]
  ELSE seq[1] \o ", " \o JoinPhrases(Tail(seq))

\* Math.round(x * 100) for a fraction x that is not negative.
RoundedPercent(x) == (x * 100 + One \div 2) \div One

\* getScoringExplanation with the stars phrase given from 0.7 on.
getScoringExplanationFromThreshold(repo, given) ==
  LET explanations ==
        (IF given.breakdown.languageMatch > Hundredths(50)
         THEN <<"Strong language match ("
                  \o DecimalText(RoundedPercent(given.breakdown.languageMatch)) \o "%)">>
         ELSE <<>>)
        \o (IF given.breakdown.topicMatch > Hundredths(50)
            THEN <<"Good topic alignment ("
                     \o DecimalText(RoundedPercent(given.breakdown.topicMatch)) \o "%)">>
            ELSE <<>>)
        \o (IF given.breakdown.starsScore >= Hundredths(70)
            THEN <<"High community interest ("
                     \o DecimalText(repo.stargazers_count) \o " stars)">>
            ELSE <<>>)
        \o (IF given.breakdown.activityScore > Hundredths(70)
            THEN <<"Recently active">> ELSE <<>>)
        \o (IF given.breakdown.issueScore > Hundredths(60)
            THEN <<"Good contribution opportunities ("
                     \o DecimalText(repo.goodFirstIssues) \o " good first issues)">>
            ELSE <<>>)
  IN IF JoinPhrases(explanations) = "" THEN "Standard repository metrics"
     ELSE JoinPhrases(explanations)

\* `given` is the RepositoryScore passed as `score`.
getScoringExplanation(repo, given) ==
  LET explanations ==
        (IF given.breakdown.languageMatch > Hundredths(50)
         THEN <<"Strong language match ("
                  \o DecimalText(RoundedPercent(given.breakdown.languageMatch)) \o "%)">>
         ELSE <<>>)
        \o (IF given.breakdown.topicMatch > Hundredths(50)
            THEN <<"Good topic alignment ("
                     \o DecimalText(RoundedPercent(given.breakdown.topicMatch)) \o "%)">>
            ELSE <<>>)
        \o (IF given.breakdown.starsScore > Hundredths(70)
            THEN <<"High community interest ("
                     \o DecimalText(repo.stargazers_count) \o " stars)">>
            ELSE <<>>)
        \o (IF given.breakdown.activityScore > Hundredths(70)
            THEN <<"Recently active">> ELSE <<>>)
        \o (IF given.breakdown.issueScore > Hundredths(60)
            THEN <<"Good contribution opportunities ("
                     \o DecimalText(repo.goodFirstIssues) \o " good first issues)">>
            ELSE <<>>)
  IN IF JoinPhrases(explanations) = "" THEN "Standard repository metrics"
     ELSE JoinPhrases(explanations)

(***************************************************************************)
(* Calls of the scorer                                                     *)
(***************************************************************************)
\* How many fields of a repository differ from the model's base repositories.
MaxVary == 1

\* enrichedData blocks: every signal at its best, getDefaultEnrichedData
\* (every signal at its worst), and a README block alone.
BestEnrichedData ==
  [commitAnalysis |->
     [frequency |-> 10, recency |-> 0, contributorDistribution |-> One,
      commitMessageQuality |-> One, branchActivity |-> One],
   issueAnalysis |->
     [responseTime |-> 0, resolutionRate |-> One, maintainerActivity |-> One,
      communityEngagement |-> One, issueQuality |-> One, labelUsage |-> One],
   dependencyAnalysis |->
     [healthScore |-> One, securityScore |-> Hundredths(80), updateFrequency |-> One,
      dependencyCount |-> 20, outdatedDependencies |-> 0, licenseCompatibility |-> One],
   readmeAnalysis |->
     [contentQuality |-> One, skillKeywords |-> <<"React", "TypeScript", "Docker">>,
      learningResources |-> 10, setupDifficulty |-> 0]]

DefaultEnrichedData ==
  [commitAnalysis |->
     [frequency |-> 0, recency |-> 365, contributorDistribution |-> 0,
      commitMessageQuality |-> 0, branchActivity |-> 0],
   issueAnalysis |->
     [responseTime |-> 168, resolutionRate |-> 0, maintainerActivity |-> 0,
      communityEngagement |-> 0, issueQuality |-> 0, labelUsage |-> 0],
   dependencyAnalysis |->
     [healthScore |-> 0, securityScore |-> 0, updateFrequency |-> 0,
      dependencyCount |-> 0, outdatedDependencies |-> 0, licenseCompatibility |-> 0],
   readmeAnalysis |->
     [contentQuality |-> 0, skillKeywords |-> <<>>,
      learningResources |-> 0, setupDifficulty |-> 0]]

MixedEnrichedData ==
  [commitAnalysis |->
     [frequency |-> 2, recency |-> -1, contributorDistribution |-> Hundredths(50),
      commitMessageQuality |-> Hundredths(20), branchActivity |-> Hundredths(30)],
   issueAnalysis |->
     [responseTime |-> 6, resolutionRate |-> Hundredths(40),
      maintainerActivity |-> Hundredths(10), communityEngagement |-> Hundredths(60),
      issueQuality |-> Hundredths(20), labelUsage |-> Hundredths(70)],
   dependencyAnalysis |->
     [healthScore |-> Hundredths(70), securityScore |-> Hundredths(60),
      updateFrequency |-> Hundredths(35), dependencyCount |-> 7,
      outdatedDependencies |-> 2, licenseCompatibility |-> Hundredths(70)],
   readmeAnalysis |-> Null]

ReadmeOnlyEnrichedData ==
  [commitAnalysis |-> Null,
   issueAnalysis |-> Null,
   dependencyAnalysis |-> Null,
   readmeAnalysis |->
     [contentQuality |-> Hundredths(50), skillKeywords |-> <<"go", "Docker">>,
      learningResources |-> 2, setupDifficulty |-> Hundredths(30)]]

EnrichedDatas ==
  <<Null, BestEnrichedData, DefaultEnrichedData, MixedEnrichedData, ReadmeOnlyEnrichedData>>

Descriptions ==
  << "",
     "A React library",
     "Production framework for enterprise teams",
     "Beginner tutorial with example code to learn React and TypeScript",
     "Learn web development with a beginner tutorial and example projects in JavaScript TypeScript React and Docker" >>

TopicLists ==
  << <<>>,
     <<"react", "tutorial">>,
     <<"good-first-issue", "web", "cli">>,
     <<"Awesome", "JavaScript", "rust", "game">> >>

LanguageNames == <<"", "TypeScript", "JavaScript", "Go">>

Homepages == <<"", "repomatch.dev">>

Licenses == <<Null, [name |-> "MIT"], [name |-> "Other"]>>

StarCounts ==
  << 0, 9, 10, 19, 20, 49, 50, 99, 100, 101, 199, 200, 500, 501, 700, 1000, 1001,
     2000, 2001, 5000, 5001, 10000, 10001, 20000, 20001, 50000, 50001 >>

ForkCounts == <<0, 1, 2, 100, 150>>

IssueCounts ==
  <<0, 4, 5, 20, 50, 51, 100, 101, 200, 201, 500, 501, 1000, 1001, 5000, 5001>>

GoodFirstIssueCounts == <<0, 1, 5, 6, 10, 11>>

\* Timestamps, in hours from the start of the call: each side of every
\* threshold of the scorer (1, 3, 7, 30, 90, 180 and 365 days), and one ahead
\* of the clock.
UpdatedAts ==
  << 5, 0, -24, -25, -72, -73, -168, -169, -720, -721, -2160, -2161, -4320, -4321,
     -8760, -8761 >>

PushedAts == <<0, -25, -168, -169, -721, -9000>>

CreatedAts == <<-719, -720, -2159, -2160, -8760, -8761>>

BaseRepositories ==
  << [language |-> "TypeScript", topics |-> TopicLists[2], description |-> Descriptions[5],
      homepage |-> "repomatch.dev", license |-> [name |-> "MIT"],
      stargazers_count |-> 500, forks_count |-> 150, open_issues_count |-> 20,
      goodFirstIssues |-> 6, updated_at |-> 0, pushed_at |-> 0, created_at |-> -9000,
      enrichedData |-> BestEnrichedData],
     [language |-> "", topics |-> <<>>, description |-> "",
      homepage |-> "", license |-> Null,
      stargazers_count |-> 0, forks_count |-> 0, open_issues_count |-> 0,
      goodFirstIssues |-> 0, updated_at |-> -9000, pushed_at |-> -9000,
      created_at |-> -9000, enrichedData |-> Null],
     [language |-> "JavaScript", topics |-> TopicLists[4], description |-> Descriptions[3],
      homepage |-> "", license |-> [name |-> "Other"],
      stargazers_count |-> 50001, forks_count |-> 150, open_issues_count |-> 5001,
      goodFirstIssues |-> 11, updated_at |-> -4321, pushed_at |-> -4400,
      created_at |-> -9000, enrichedData |-> DefaultEnrichedData],
     [language |-> "Go", topics |-> TopicLists[3], description |-> Descriptions[2],
      homepage |-> "", license |-> [name |-> "MIT"],
      stargazers_count |-> 700, forks_count |-> 2, open_issues_count |-> 51,
      goodFirstIssues |-> 1, updated_at |-> -200, pushed_at |-> -100,
      created_at |-> -1000, enrichedData |-> ReadmeOnlyEnrichedData] >>

Range(seq) == {seq[i] : i \in 1..Len(seq)}

\* The repositories that differ from r in one field.
Variants(r) ==
  {[r EXCEPT !.language = v] : v \in Range(LanguageNames)}
    \cup {[r EXCEPT !.topics = v] : v \in Range(TopicLists)}
    \cup {[r EXCEPT !.description = v] : v \in Range(Descriptions)}
    \cup {[r EXCEPT !.homepage = v] : v \in Range(Homepages)}
    \cup {[r EXCEPT !.license = Licenses[i]] : i \in 1..Len(Licenses)}
    \cup {[r EXCEPT !.stargazers_count = v] : v \in Range(StarCounts)}
    \cup {[r EXCEPT !.forks_count = v] : v \in Range(ForkCounts)}
    \cup {[r EXCEPT !.open_issues_count = v] : v \in Range(IssueCounts)}
    \cup {[r EXCEPT !.goodFirstIssues = v] : v \in Range(GoodFirstIssueCounts)}
    \cup {[r EXCEPT !.updated_at = v] : v \in Range(UpdatedAts)}
    \cup {[r EXCEPT !.pushed_at = v] : v \in Range(PushedAts)}
    \cup {[r EXCEPT !.created_at = v] : v \in Range(CreatedAts)}
    \cup {[r EXCEPT !.enrichedData = EnrichedDatas[i]] : i \in 1..Len(EnrichedDatas)}

RECURSIVE VariedBy(_)
VariedBy(n) ==
  IF n = 0 THEN Range(BaseRepositories)
  ELSE LET fewer == VariedBy(n - 1)
       IN fewer \cup UNION {Variants(r) : r \in fewer}

Repositories == VariedBy(MaxVary)

\* The skill lists passed to the scorer: what the normaliser computes for
\* these inputs.
SkillLists ==
  { <<>>, NormalizeLoop(initializeSkillGraph, <<"reactjs", "golang", "k8s-ops">>) }

Modes == {"", "profile-building", "learning", "quick-wins"}

\* options.weights: absent or empty, or two of the three fields.
WeightOverrides ==
  { [set |-> {}, relevance |-> 0, quality |-> 0, opportunity |-> 0],
    [set |-> {"relevance", "opportunity"}, relevance |-> 100, quality |-> 0,
     opportunity |-> 120] }

\* The clock stands still during the call, or it moves on by an hour before
\* the tick-th read and the reads from that one on see the later instant.
Clocks ==
  { [k \in 1..Len(ClockReads) |-> IF tick # 0 /\ k >= tick THEN 1 ELSE 0] :
      tick \in {0} \cup 3..Len(ClockReads) }

Requests ==
  [repo : Repositories,
   skills : SkillLists,
   options : [mode : Modes, weights : WeightOverrides],
   clock : Clocks]

InitScorer ==
  /\ NormalizerConstructed
  /\ vocabulary = {}
  /\ request \in Requests
  /\ scoring = "pending"
  /\ score = Null
  /\ usedWeights = Null
  /\ explanation = ""
  /\ RankerIdle

ScoreRepositoryCall ==
  /\ scoring = "pending"
  /\ score' = scoreRepository(request.repo, request.skills, request.options,
                              request.clock)
  /\ usedWeights' = ResolvedWeights(request.options)
  /\ scoring' = "done"
  /\ UNCHANGED <<request, explanation, normVars, rankVars>>

\* The route asks for the explanation of the score it got.
GetScoringExplanationCall ==
  /\ scoring = "done"
  /\ explanation' = getScoringExplanation(request.repo, score)
  /\ scoring' = "explained"
  /\ UNCHANGED <<request, score, usedWeights, normVars, rankVars>>

NextScorer == ScoreRepositoryCall \/ GetScoringExplanationCall

(***************************************************************************)
(* scoreRepositories: the batch is scored, sorted by final score, shuffled *)
(* within bands of close scores and interleaved by size tier.              *)
(***************************************************************************)
\* The same map ending at the first repository without enriched data, as it
\* would if scoring that repository raised an error.
RECURSIVE ScoreEachWithEnrichedData(_, _, _, _)
ScoreEachWithEnrichedData(repos, userSkills, options, clock) ==
  IF repos = <<>> \/ Head(repos).enrichedData = Null THEN <<>>
  ELSE <<[repo |-> Head(repos),
          score |-> scoreRepository(Head(repos), userSkills, options, clock)]>>
       \o ScoreEachWithEnrichedData(Tail(repos), userSkills, options, clock)

\* repos.map(repo => ({ repo, score: this.scoreRepository(repo, skills, options) }))
\* (SubSeq makes the array a value computed once.)
ScoreEach(repos, userSkills, options, clock) ==
  SubSeq([i \in 1..Len(repos) |->
            [repo |-> repos[i],
             score |-> scoreRepository(repos[i], userSkills, options, clock)]],
         1, Len(repos))

\* scoredRepos.sort((a, b) => b.score.final - a.score.final): descending by
\* final score, entries with equal scores keeping their order.  An entry's
\* place is one more than the number of entries that go before it.
SortByFinal(entries) ==
  LET n == Len(entries)
      finals == SubSeq([i \in 1..n |-> entries[i].score.final], 1, n)
      place == SubSeq([i \in 1..n |->
                         1 + Cardinality({j \in 1..n :
                               \/ finals[j] > finals[i]
                               \/ finals[j] = finals[i] /\ j < i})], 1, n)
  IN SubSeq([k \in 1..n |-> entries[CHOOSE i \in 1..n : place[i] = k]], 1, n)

\* percentDiff <= 0.03, percentDiff being |final - currentScore| / currentScore:
\* the quotient of a division by 0 is NaN or Infinity and the comparison false.
WithinThreePercent(final, currentScore) ==
  LET scoreDiff == IF final >= currentScore THEN final - currentScore
                   ELSE currentScore - final
  IN IF currentScore = 0 THEN FALSE
     ELSE scoreDiff * 100 <= 3 * currentScore

\* The inner loop comparing each entry with the one before it instead of with
\* the first of the group.
CloseGroupEndByNeighbour(entries, i) ==
  LET stops == {j \in (i + 1)..Len(entries) :
                  ~WithinThreePercent(entries[j].score.final,
                                      entries[j - 1].score.final)}
  IN IF stops = {} THEN Len(entries) + 1
     ELSE CHOOSE j \in stops : \A k \in stops : j <= k

\* The value of j when the inner loop of randomizeCloseScores ends, the group
\* starting at i (positions from 1).
CloseGroupEnd(entries, i) ==
  LET stops == {j \in (i + 1)..Len(entries) :
                  ~WithinThreePercent(entries[j].score.final, entries[i].score.final)}
  IN IF stops = {} THEN Len(entries) + 1
     ELSE CHOOSE j \in stops : \A k \in stops : j <= k

\* closeGroup.sort(() => Math.random() - 0.5): any order of the group.
Shuffles(closeGroup) ==
  {[k \in 1..Len(closeGroup) |-> closeGroup[order[k]]] :
     order \in Permutations(1..Len(closeGroup))}

\* The positions at which the outer loop of randomizeCloseScores starts a
\* group (the values of i), `starts` being those of the turns already made and
\* `turns` the number of turns still to make.
RECURSIVE CloseGroupStarts(_, _, _)
CloseGroupStarts(entries, starts, turns) ==
  IF turns = 0 THEN starts
  ELSE IF turns = 1
  THEN LET i == IF starts = <<>> THEN 1
                ELSE CloseGroupEnd(entries, starts[Len(starts)])
       IN IF i <= Len(entries) THEN Append(starts, i) ELSE starts
  ELSE CHOOSE after \in
         {CloseGroupStarts(entries, half, turns - turns \div 2) :
            half \in {CloseGroupStarts(entries, starts, turns \div 2)}} : TRUE

\* result.push(...shuffledGroup) for the groups from the first-th to the
\* last-th: every list these pushes can add.
RECURSIVE PushedGroups(_, _, _, _)
PushedGroups(entries, starts, first, last) ==
  IF first > last THEN {<<>>}
  ELSE IF first = last
  THEN LET i == starts[first]
           j == IF first < Len(starts) THEN starts[first + 1] ELSE Len(entries) + 1
       IN Shuffles(SubSeq(entries, i, j - 1))
  ELSE LET middle == (first + last) \div 2
       IN {front \o back :
             front \in PushedGroups(entries, starts, first, middle),
             back \in PushedGroups(entries, starts, middle + 1, last)}

\* Every list randomizeCloseScores can return for the given sorted list.
randomizeCloseScores(entries) ==
  LET starts == CloseGroupStarts(entries, <<>>, Len(entries))
  IN PushedGroups(entries, starts, 1, Len(starts))

MaxResultsLimit == 50

\* The small tier without its lower bound of 50 stars.
IsSmallFromZero(entry) == entry.repo.stargazers_count < 500

IsSmall(entry) == entry.repo.stargazers_count >= 50 /\ entry.repo.stargazers_count < 500
IsMedium(entry) == entry.repo.stargazers_count >= 500 /\ entry.repo.stargazers_count < 2000
IsLarge(entry) == entry.repo.stargazers_count >= 2000

\* The turn of the loop with the fallback taking the largest tier first.
TierStepLargestFirst(loop, smallRepos, mediumRepos, largeRepos, maxResults) ==
  LET cycle == loop.i % 4
      pushSmall == [loop EXCEPT !.i = @ + 1, !.smallIndex = @ + 1,
                      !.out = Append(@, smallRepos[loop.smallIndex + 1])]
      pushMedium == [loop EXCEPT !.i = @ + 1, !.mediumIndex = @ + 1,
                       !.out = Append(@, mediumRepos[loop.mediumIndex + 1])]
      pushLarge == [loop EXCEPT !.i = @ + 1, !.largeIndex = @ + 1,
                      !.out = Append(@, largeRepos[loop.largeIndex + 1])]
  IN IF loop.ended \/ ~(loop.i < maxResults) THEN [loop EXCEPT !.ended = TRUE]
     ELSE IF (cycle = 0 \/ cycle = 1) /\ loop.smallIndex < Len(smallRepos) THEN pushSmall
     ELSE IF cycle = 2 /\ loop.mediumIndex < Len(mediumRepos) THEN pushMedium
     ELSE IF cycle = 3 /\ loop.largeIndex < Len(largeRepos) THEN pushLarge
     ELSE IF loop.largeIndex < Len(largeRepos) THEN pushLarge
     ELSE IF loop.mediumIndex < Len(mediumRepos) THEN pushMedium
     ELSE IF loop.smallIndex < Len(smallRepos) THEN pushSmall
     ELSE [loop EXCEPT !.ended = TRUE]

\* One turn of the for loop of applyDiversityTiers; `loop` holds i, the three
\* indices, the result and whether the loop has ended.
TierStep(loop, smallRepos, mediumRepos, largeRepos, maxResults) ==
  LET cycle == loop.i % 4
      pushSmall == [loop EXCEPT !.i = @ + 1, !.smallIndex = @ + 1,
                      !.out = Append(@, smallRepos[loop.smallIndex + 1])]
      pushMedium == [loop EXCEPT !.i = @ + 1, !.mediumIndex = @ + 1,
                       !.out = Append(@, mediumRepos[loop.mediumIndex + 1])]
      pushLarge == [loop EXCEPT !.i = @ + 1, !.largeIndex = @ + 1,
                      !.out = Append(@, largeRepos[loop.largeIndex + 1])]
  IN IF loop.ended \/ ~(loop.i < maxResults) THEN [loop EXCEPT !.ended = TRUE]
     ELSE IF (cycle = 0 \/ cycle = 1) /\ loop.smallIndex < Len(smallRepos) THEN pushSmall
     ELSE IF cycle = 2 /\ loop.mediumIndex < Len(mediumRepos) THEN pushMedium
     ELSE IF cycle = 3 /\ loop.largeIndex < Len(largeRepos) THEN pushLarge
     ELSE IF loop.smallIndex < Len(smallRepos) THEN pushSmall
     ELSE IF loop.mediumIndex < Len(mediumRepos) THEN pushMedium
     ELSE IF loop.largeIndex < Len(largeRepos) THEN pushLarge
     ELSE [loop EXCEPT !.ended = TRUE]

\* `turns` turns of that loop: the first half of them, then the rest from the
\* value they leave.
RECURSIVE TierLoop(_, _, _, _, _, _)
TierLoop(loop, turns, smallRepos, mediumRepos, largeRepos, maxResults) ==
  IF turns = 0 THEN loop
  ELSE IF turns = 1
  THEN TierStep(loop, smallRepos, mediumRepos, largeRepos, maxResults)
  ELSE CHOOSE after \in
         {TierLoop(half, turns - turns \div 2, smallRepos, mediumRepos, largeRepos,
                   maxResults) :
            half \in {TierLoop(loop, turns \div 2, smallRepos, mediumRepos,
                               largeRepos, maxResults)}} : TRUE

\* The same with each tier put back in the order of its final scores.
applyDiversityTiersByScore(entries) ==
  LET smallRepos == SortByFinal(SelectSeq(entries, IsSmall))
      mediumRepos == SortByFinal(SelectSeq(entries, IsMedium))
      largeRepos == SortByFinal(SelectSeq(entries, IsLarge))
      maxResults == Min(Len(entries), MaxResultsLimit)
      start == [i |-> 0, smallIndex |-> 0, mediumIndex |-> 0, largeIndex |-> 0,
                out |-> <<>>, ended |-> FALSE]
  IN TierLoop(start, maxResults, smallRepos, mediumRepos, largeRepos, maxResults).out

\* The same with maxResults = scoredRepos.length.
applyDiversityTiersWithoutLimit(entries) ==
  LET smallRepos == SelectSeq(entries, IsSmall)
      mediumRepos == SelectSeq(entries, IsMedium)
      largeRepos == SelectSeq(entries, IsLarge)
      start == [i |-> 0, smallIndex |-> 0, mediumIndex |-> 0, largeIndex |-> 0,
                out |-> <<>>, ended |-> FALSE]
  IN TierLoop(start, Len(entries), smallRepos, mediumRepos, largeRepos,
              Len(entries)).out

applyDiversityTiers(entries) ==
  LET smallRepos == SelectSeq(entries, IsSmall)
      mediumRepos == SelectSeq(entries, IsMedium)
      largeRepos == SelectSeq(entries, IsLarge)
      maxResults == Min(Len(entries), MaxResultsLimit)
      start == [i |-> 0, smallIndex |-> 0, mediumIndex |-> 0, largeIndex |-> 0,
                out |-> <<>>, ended |-> FALSE]
  IN TierLoop(start, maxResults, smallRepos, mediumRepos, largeRepos, maxResults).out

(***************************************************************************)
(* The search route after scoring                                          *)
(***************************************************************************)
\* Array.prototype.sort with the comparator (a, b) => key(b) - key(a):
\* descending by key, entries with equal keys keeping their order; keyOf[i]
\* is the key of the i-th entry.
SortDescendingBy(entries, keyOf) ==
  LET n == Len(entries)
      keys == SubSeq(keyOf, 1, n)
      place == SubSeq([i \in 1..n |->
                         1 + Cardinality({j \in 1..n :
                               \/ keys[j] > keys[i]
                               \/ keys[j] = keys[i] /\ j < i})], 1, n)
  IN SubSeq([k \in 1..n |-> entries[CHOOSE i \in 1..n : place[i] = k]], 1, n)

\* sortRepositories leaving the list in the order it was passed for
\* 'relevance'.
sortRepositoriesKeepingRelevance(entries, sort) ==
  IF sort = "stars"
  THEN SortDescendingBy(entries, [i \in 1..Len(entries) |-> entries[i].repo.stargazers_count])
  ELSE IF sort = "activity"
  THEN SortDescendingBy(entries, [i \in 1..Len(entries) |-> entries[i].repo.updated_at])
  ELSE IF sort = "opportunity"
  THEN SortDescendingBy(entries, [i \in 1..Len(entries) |-> entries[i].score.opportunity])
  ELSE entries

sortRepositories(entries, sort) ==
  IF sort = "stars"
  THEN SortDescendingBy(entries, [i \in 1..Len(entries) |-> entries[i].repo.stargazers_count])
  ELSE IF sort = "activity"
  THEN SortDescendingBy(entries, [i \in 1..Len(entries) |-> entries[i].repo.updated_at])
  ELSE IF sort = "opportunity"
  THEN SortDescendingBy(entries, [i \in 1..Len(entries) |-> entries[i].score.opportunity])
  ELSE SortDescendingBy(entries, [i \in 1..Len(entries) |-> entries[i].score.final])

\* Array.prototype.slice(startIndex, endIndex) for indexes that are not
\* negative.
Slice(list, startIndex, endIndex) ==
  SubSeq(list, startIndex + 1, IF endIndex < Len(list) THEN endIndex ELSE Len(list))

\* Math.round(x * 100) / 100, in hundredths.
RoundedToHundredths(x) == RoundedPercent(x)

\* An entry of `repositories` of the response: the fields that depend on the
\* scoring.
FormatRepository(entry) ==
  [id |-> entry.repo.id,
   stars |-> entry.repo.stargazers_count,
   scores |-> [relevance |-> RoundedToHundredths(entry.score.relevance),
               quality |-> RoundedToHundredths(entry.score.quality),
               opportunity |-> RoundedToHundredths(entry.score.opportunity),
               final |-> RoundedToHundredths(entry.score.final)]]

\* `repositories` of the response for the list scoreRepositories returned.
\* query.sort is "" when the body has no sort.
SearchResponseRepositories(entries, query) ==
  LET sortedByRequest == sortRepositories(entries, IF query.sort = "" THEN "relevance"
                                                   ELSE query.sort)
      startIndex == (query.page - 1) * query.limit
      endIndex == startIndex + query.limit
      paginatedRepos == Slice(sortedByRequest, startIndex, endIndex)
  IN SubSeq([k \in 1..Len(paginatedRepos) |-> FormatRepository(paginatedRepos[k])],
            1, Len(paginatedRepos))

\* sort, page and limit of the request body.
SearchQueries ==
  [sort : {"", "relevance", "stars", "opportunity", "activity"}, page : {1}, limit : {20}]
  \cup [sort : {"", "stars"}, page : {1, 2}, limit : {2}]

(***************************************************************************)
(* Calls of scoreRepositories                                              *)
(***************************************************************************)
MaxBatch == 3

\* The kinds of repository a batch is made of.  In profile-building mode
\* their final scores are 1.2 (medium tier), 1.2 (large), 1.178 (small, within
\* 3% of 1.2), 1.160 (small, within 3% of 1.178 and not of 1.2), 0.281 (small)
\* and 0 (below every tier); in learning mode 1.2 for the first four and 0
\* for these two.  The last is the first with 49 stars: below every tier,
\* with a final score above 0 in both modes.
KindsOfRepository ==
  << [BaseRepositories[1] EXCEPT !.stargazers_count = 500],
     [BaseRepositories[1] EXCEPT !.stargazers_count = 5001],
     [BaseRepositories[1] EXCEPT !.stargazers_count = 200],
     [BaseRepositories[1] EXCEPT !.stargazers_count = 200, !.open_issues_count = 200],
     [BaseRepositories[2] EXCEPT !.stargazers_count = 200],
     [BaseRepositories[2] EXCEPT !.stargazers_count = 49],
     [BaseRepositories[1] EXCEPT !.stargazers_count = 49] >>

\* RepositoryDetails.id: the position in the batch.
WithId(repo, id) == [id |-> id] @@ repo

\* Every list of at most MaxBatch repositories of these kinds.
SmallBatches ==
  UNION {{[i \in 1..n |-> WithId(KindsOfRepository[kinds[i]], i)] :
            kinds \in [1..n -> 1..Len(KindsOfRepository)]} : n \in 0..MaxBatch}

\* Longer lists of these kinds, by their numbers.
LongerLists ==
  { <<1, 2, 3, 4, 5, 6, 3, 4>>,
    <<5, 6, 4, 3, 2, 1>>,
    <<2, 1, 1, 3, 4, 5, 6>>,
    <<3, 4, 3, 5, 3, 2, 1, 6, 5>>,
    <<4, 3, 5, 5, 2>>,
    <<2, 2, 1, 2, 5>>,
    <<7, 3, 6, 7, 2, 5>> }

LongerBatches ==
  {[i \in 1..Len(kinds) |-> WithId(KindsOfRepository[kinds[i]], i)] : kinds \in LongerLists}

\* Star counts of the repositories that fill a long batch, in turn.
FillerStars ==
  << <<200, 200, 700, 2000>>,
     <<200, 49, 2000, 49, 700, 49>>,
     <<700, 2000>> >>

LargeBatchSizes == {49, 50, 51, 64, 101}

\* Two high-scoring repositories followed by size - 2 bare ones with none,
\* some or all of the enriched data, which score 0 in learning mode.
LargeBatch(size, stars) ==
  [i \in 1..size |->
     WithId(IF i = 1 THEN KindsOfRepository[1]
            ELSE IF i = 2 THEN KindsOfRepository[3]
            ELSE [BaseRepositories[2] EXCEPT
                    !.stargazers_count = stars[((i - 3) % Len(stars)) + 1],
                    !.enrichedData = EnrichedDatas[((i - 3) % Len(EnrichedDatas)) + 1]],
            i)]

LargeBatches ==
  {LargeBatch(size, FillerStars[k]) : size \in LargeBatchSizes, k \in 1..Len(FillerStars)}

\* The normalised skills the routes pass on, for one token.
BatchSkills == NormalizeLoop(initializeSkillGraph, <<"reactjs">>)

NoOverride == CHOOSE w \in WeightOverrides : w.set = {}

StandingClock == [k \in 1..Len(ClockReads) |-> 0]

Batches ==
  [repos : SmallBatches \cup LongerBatches, skills : {BatchSkills},
   options : [mode : {"profile-building", "learning"}, weights : {NoOverride}],
   clock : {StandingClock}]
  \cup
  [repos : LargeBatches, skills : {BatchSkills},
   options : [mode : {"learning"}, weights : {NoOverride}],
   clock : {StandingClock}]

InitRanker ==
  /\ NormalizerConstructed
  /\ vocabulary = {}
  /\ request = Null
  /\ scoring = "idle"
  /\ score = Null
  /\ usedWeights = Null
  /\ explanation = ""
  /\ batch \in Batches
  /\ ranking = "pending"
  /\ scoredRepos = <<>>
  /\ sortedRepos = <<>>
  /\ randomizedRepos = <<>>
  /\ ranked = <<>>
  /\ response = Null

\* scoreRepositories with applyDiversityAndRandomization.
ScoreRepositoriesCall ==
  /\ ranking = "pending"
  /\ \E mapped \in {ScoreEach(batch.repos, batch.skills, batch.options, batch.clock)} :
     \E sorted \in {SortByFinal(mapped)} :
     \E shuffled \in randomizeCloseScores(sorted) :
        /\ scoredRepos' = mapped
        /\ sortedRepos' = sorted
        /\ randomizedRepos' = shuffled
        /\ ranked' = applyDiversityTiers(shuffled)
  /\ ranking' = "done"
  /\ UNCHANGED <<batch, response, normVars, callVars>>

\* POST /api/search from the list scoreRepositories returned on: sort by the
\* requested criteria, paginate, format.
SearchRouteRespond ==
  /\ ranking = "done"
  /\ \E query \in SearchQueries :
       response' = [sort |-> query.sort, page |-> query.page, limit |-> query.limit,
                    repositories |-> SearchResponseRepositories(ranked, query)]
  /\ ranking' = "responded"
  /\ UNCHANGED <<batch, scoredRepos, sortedRepos, randomizedRepos, ranked,
                 normVars, callVars>>

NextRanker == ScoreRepositoriesCall \/ SearchRouteRespond

(***************************************************************************)
(* Specifications                                                          *)
(***************************************************************************)
vars == <<normVars, scoreVars>>

\* The normaliser and its cache under concurrent handlers.
Init == InitNormalizer
Next == NextNormalizer
Spec == Init /\ [][Next]_vars

\* One call of scoreRepository on each of the modelled requests.
SpecScore == InitScorer /\ [][NextScorer]_vars


\* One call of scoreRepositories on each of the modelled batches.
SpecRank == InitRanker /\ [][NextRanker]_vars
Returned(p) == pc[p] \in {"returned", "expanded", "finished"}

(***************************************************************************)
(* Properties of the normaliser                                            *)
(***************************************************************************)
CatalogIndex == 1..Len(Catalog)

IsCanonical(token) == \E n \in CatalogIndex : Catalog[n].name = token

IsAlias(token) == \E n \in CatalogIndex : InSeq(token, Catalog[n].aliases)

HasCanonicalVariation(token) ==
  \E v \in 1..Len(generateVariations(token)) : IsCanonical(generateVariations(token)[v])

Blank(token) == Trim(token) = ""

\* The callers whose loop has run, and so whose resolved/result are set.
Computed(p) == pc[p] = "awaitSet" \/ (Returned(p) /\ path[p] = "miss")

\* What the resolution order asks of the entry r built for the raw token.
ResolvedInOrder(token, r) ==
  LET clean == ToLowerCase(Trim(token))
  IN IF IsCanonical(clean)
     THEN \E n \in CatalogIndex :
            /\ Catalog[n].name = clean
            /\ r = [original |-> token, normalized |-> Catalog[n].name,
                    category |-> Catalog[n].category,
                    expanded |-> Catalog[n].expanded, weight |-> 10]
     ELSE IF IsAlias(clean)
     THEN \E n \in CatalogIndex :
            /\ InSeq(clean, Catalog[n].aliases)
            /\ r = [original |-> token, normalized |-> Catalog[n].name,
                    category |-> Catalog[n].category,
                    expanded |-> Catalog[n].expanded, weight |-> 9]
     ELSE IF HasCanonicalVariation(clean)
     THEN \E n \in CatalogIndex :
            /\ InSeq(Catalog[n].name, generateVariations(clean))
            /\ r = [original |-> token, normalized |-> Catalog[n].name,
                    category |-> Catalog[n].category,
                    expanded |-> Catalog[n].expanded, weight |-> 8]
     ELSE r = [original |-> token, normalized |-> clean, category |-> "concept",
               expanded |-> <<clean>>, weight |-> 5]

\* C1: every token that is not empty after trim and lowercase is resolved by the
\* first step that matches, in the order canonical name (weight 1.0), alias
\* (0.9), generated variation (0.8), fallback (0.5, category concept, expanded
\* the cleaned token alone); no token takes the weight of a later step.
C1_ResolutionOrder ==
  \A p \in Callers :
    Computed(p) =>
      /\ Len(resolved[p]) = Len(skills[p])
      /\ \A i \in 1..Len(skills[p]) :
           ~Blank(skills[p][i]) => ResolvedInOrder(skills[p][i], resolved[p][i])

\* A token that is an alias and also has a canonical variation took the alias
\* weight.
C1_Witness ==
  \E p \in Callers :
    /\ Computed(p)
    /\ \E i \in 1..Len(skills[p]) :
         /\ IsAlias(skills[p][i])
         /\ HasCanonicalVariation(skills[p][i])
         /\ resolved[p][i].weight = 9

KeyOf(entry) == ToLowerCase(entry.normalized)

\* The sum of the weights of the resolutions with the given key.
RECURSIVE WeightFor(_, _)
WeightFor(k, resolutions) ==
  IF resolutions = <<>> THEN 0
  ELSE (IF Head(resolutions) # Null /\ KeyOf(Head(resolutions)) = k
        THEN Head(resolutions).weight ELSE 0)
         + WeightFor(k, Tail(resolutions))

DistinctKeys(list) ==
  \A i, j \in 1..Len(list) : i # j => KeyOf(list[i]) # KeyOf(list[j])

\* C2: the list the loop builds has one entry per lowercased normalized key, the
\* weight of an entry is the sum of the weights of the tokens resolved to its
\* key, and every key a token resolved to has its entry; every list returned,
\* computed or from the cache, has distinct keys and positive weights.
C2_OneEntryPerKeySummedWeight ==
  \A p \in Callers :
    /\ Computed(p) =>
         /\ DistinctKeys(result[p])
         /\ \A i \in 1..Len(result[p]) :
              result[p][i].weight = WeightFor(KeyOf(result[p][i]), resolved[p])
         /\ \A i \in 1..Len(resolved[p]) :
              resolved[p][i] # Null =>
                \E j \in 1..Len(result[p]) : KeyOf(result[p][j]) = KeyOf(resolved[p][i])
    /\ Returned(p) =>
         /\ DistinctKeys(ret[p])
         /\ \A i \in 1..Len(ret[p]) : ret[p][i].weight > 0

\* Two tokens of one list resolved to one key and its entry weighs more than 1.
C2_Witness ==
  \E p \in Callers :
    /\ Returned(p) /\ path[p] = "miss"
    /\ Len(input[p].list) = 2 /\ Len(ret[p]) = 1
    /\ ret[p][1].weight > 10

\* C3: a null or empty argument returns the empty list at once; a token empty
\* after the trim is resolved to nothing, and no entry of a returned list comes
\* from such a token or has an empty normalized name.
C3_EmptyInputAndBlankTokens ==
  \A p \in Callers :
    /\ (Returned(p) /\ EmptyInput(input[p])) => (ret[p] = <<>> /\ path[p] = "empty")
    /\ Computed(p) =>
         /\ \A i \in 1..Len(skills[p]) : Blank(skills[p][i]) => resolved[p][i] = Null
         /\ Len(result[p]) <= Cardinality({i \in 1..Len(skills[p]) : ~Blank(skills[p][i])})
    /\ Returned(p) =>
         \A i \in 1..Len(ret[p]) : ~Blank(ret[p][i].original) /\ ret[p][i].normalized # ""

\* One call returned on a null argument, another on a list with a blank token
\* and one other token.
C3_Witness ==
  \E p, q \in Callers :
    /\ Returned(p) /\ input[p].null /\ ret[p] = <<>>
    /\ Returned(q) /\ path[q] = "miss"
    /\ \E i \in 1..Len(input[q].list) : Blank(input[q].list[i])
    /\ Len(input[q].list) = 2 /\ Len(ret[q]) = 1

Members(seq) == {seq[i] : i \in 1..Len(seq)}

Expanded(p) == pc[p] \in {"expanded", "finished"}

\* C4: getExpandedSkills returns no string twice, and its members are exactly
\* the normalized names and the members of the expanded lists of its input.
C4_ExpandedIsUnion ==
  \A p \in Callers :
    Expanded(p) =>
      /\ \A i, j \in 1..Len(expandedOut[p]) :
           i # j => expandedOut[p][i] # expandedOut[p][j]
      /\ Members(expandedOut[p]) =
           {ret[p][i].normalized : i \in 1..Len(ret[p])}
             \cup UNION {Members(ret[p][i].expanded) : i \in 1..Len(ret[p])}

\* The input named some string more than once.
C4_Witness ==
  \E p \in Callers :
    /\ Expanded(p)
    /\ Len(ret[p]) = 2
    /\ Len(expandedOut[p]) < Len(ConcatAll(ret[p]))

\* The loop of normalizeSkills on the argument as passed, with no cache call.
WithoutCache(arg) ==
  IF EmptyInput(arg) THEN <<>> ELSE NormalizeLoop(initializeSkillGraph, arg.list)

Fields(list) ==
  [i \in 1..Len(list) |-> <<list[i].original, list[i].normalized, list[i].weight>>]

\* C5: normalizeSkills returns the list (entries, original, normalized, weight,
\* order) that the same normalization returns with the cache disabled.
C5_SameAsWithoutCache ==
  \A p \in Callers :
    Returned(p) => Fields(ret[p]) = Fields(WithoutCache(input[p]))

\* What a call returns when no other call runs: from the empty cache
\* redis.get misses, and the loop runs over the array sorted for the key.
Alone(arg) ==
  IF EmptyInput(arg) THEN <<>> ELSE NormalizeLoop(initializeSkillGraph, Sort(arg.list))

\* C6: calls on different lists, interleaved at the awaits on the cache, each
\* return what they would return executed alone.
C6_SameAsAlone ==
  \A p, q \in Callers :
    (p # q /\ input[p] # input[q] /\ Returned(p)) => ret[p] = Alone(input[p])

DocumentedVariations(token) ==
  { [text |-> Abbreviations[e].abbrevs[k], place |-> 100 * e + k] :
      <<e, k>> \in { <<e, k>> \in (1..Len(Abbreviations)) \X (1..9) :
                       /\ k <= Len(Abbreviations[e].abbrevs)
                       /\ Includes(token, Abbreviations[e].full) } }
  \cup
  { [text |-> Abbreviations[e].full, place |-> 100 * e + 10 + k] :
      <<e, k>> \in { <<e, k>> \in (1..Len(Abbreviations)) \X (1..9) :
                       /\ k <= Len(Abbreviations[e].abbrevs)
                       /\ Includes(token, Abbreviations[e].abbrevs[k]) } }
  \cup
  (IF \E i \in 1..Len(token) : CharAt(token, i) \in {CharAt(Digits, d) : d \in 1..10}
   THEN { [text |-> StripDigits(token), place |-> 10000] }
   ELSE { [text |-> token \o "3", place |-> 10001],
          [text |-> token \o "2", place |-> 10002],
          [text |-> token \o "1", place |-> 10003] })

\* The documented variations that are canonical names.
CanonicalVariations(token) == {v \in DocumentedVariations(token) : IsCanonical(v.text)}

\* The first of them in the order of trial.
FirstCanonicalVariation(token) ==
  CHOOSE v \in CanonicalVariations(token) :
    \A w \in CanonicalVariations(token) : v.place <= w.place

\* What the fuzzy step and the fallback ask of the entry r built for a raw
\* token that is neither a canonical name nor an alias.
ResolvedByVariation(token, r) ==
  LET clean == ToLowerCase(Trim(token))
  IN IF CanonicalVariations(clean) # {}
     THEN \E n \in CatalogIndex :
            /\ Catalog[n].name = FirstCanonicalVariation(clean).text
            /\ r = [original |-> token, normalized |-> Catalog[n].name,
                    category |-> Catalog[n].category,
                    expanded |-> Catalog[n].expanded, weight |-> 8]
     ELSE r = [original |-> token, normalized |-> clean, category |-> "concept",
               expanded |-> <<clean>>, weight |-> 5]

\* Neither blank, nor a canonical name, nor an alias, once trimmed and
\* lowercased.
ReachesFuzzyStep(token) ==
  /\ ~Blank(token)
  /\ ~IsCanonical(ToLowerCase(Trim(token)))
  /\ ~IsAlias(ToLowerCase(Trim(token)))

\* C21: a token that is neither a canonical name nor an alias resolves to the
\* first of its variations that is a canonical name, with weight 0.8, the
\* variations being tried in the order: per entry of the abbreviation table
\* its short forms if the token contains the long form and its long form if
\* the token contains a short form, then the token without its digits if it
\* has any, otherwise the token with 3, 2, 1 appended; a token with no such
\* variation takes the fallback.
C21_FuzzyVariations ==
  \A p \in Callers :
    Computed(p) =>
      \A i \in 1..Len(skills[p]) :
        ReachesFuzzyStep(skills[p][i]) => ResolvedByVariation(skills[p][i], resolved[p][i])

\* One call resolved 'Nodes', which contains the long form node, to the
\* canonical short form nodejs with weight 0.8, and 'k8', which without its
\* digit is no canonical name, by the fallback.
C21_Witness ==
  \E p \in Callers :
    /\ Computed(p)
    /\ \E i, j \in 1..Len(skills[p]) :
         /\ skills[p][i] = "Nodes"
         /\ ReachesFuzzyStep(skills[p][i])
         /\ resolved[p][i].normalized = "nodejs"
         /\ resolved[p][i].weight = 8
         /\ skills[p][j] = "k8"
         /\ ReachesFuzzyStep(skills[p][j])
         /\ CanonicalVariations(skills[p][j]) = {}
         /\ resolved[p][j].normalized = "k8"
         /\ resolved[p][j].weight = 5

\* C24: a call of normalizeSkills leaves the caller's array as it was passed,
\* the same elements in the same order, whether the cache answered or the
\* loop ran.
C24_InputArrayUnchanged ==
  \A p \in Callers :
    (Returned(p) /\ path[p] \in {"hit", "miss"}) => skills[p] = input[p].list

\* The number of elements of the list equal to the token.
Occurrences(list, token) == Cardinality({i \in 1..Len(list) : list[i] = token})

\* The two lists hold the same tokens the same number of times.
SameTokens(a, b) ==
  \A token \in {a[i] : i \in 1..Len(a)} \cup {b[i] : i \in 1..Len(b)} :
    Occurrences(a, token) = Occurrences(b, token)

\* The caller passed a list that is not empty, so a cache key was computed.
KeyComputed(p) == pc[p] # "idle" /\ ~EmptyInput(input[p])

\* C25: two skill lists share a cache entry only if they are permutations of
\* each other: lists with different multisets of tokens never get the same
\* key, and a call answered from the cache gets a value computed from a list
\* with the same multiset of tokens as its own.
C25_KeySharedOnlyByPermutations ==
  \A p, q \in Callers :
    /\ (KeyComputed(p) /\ KeyComputed(q) /\ key[p] = key[q])
         => SameTokens(input[p].list, input[q].list)
    /\ (p # q /\ Returned(p) /\ path[p] = "hit")
         => SameTokens(input[p].list, input[q].list)

\* The `normalized` names of a returned list, in its order.
NormalizedNames(list) == [i \in 1..Len(list) |-> list[i].normalized]

\* The loop of normalizeSkills, with no cache call, on the normalized names
\* of the list that caller p's loop built.
Renormalized(p) == NormalizeLoop(initializeSkillGraph, NormalizedNames(result[p]))

\* The entry is the name resolved to itself: by direct match if it is a
\* canonical name, by the fallback otherwise.
ResolvedToItself(name, entry) ==
  /\ entry.original = name
  /\ entry.normalized = name
  /\ IF IsCanonical(name)
     THEN entry.weight = 10
     ELSE entry.weight = 5 /\ entry.category = "concept" /\ entry.expanded = <<name>>

\* C27: normalization is idempotent on normalized names: normalizing the
\* normalized names of a result, with the cache disabled, gives exactly the
\* same normalized names, each resolved to itself, canonical names by direct
\* match and fallback tokens by the fallback again.
C27_IdempotentOnNormalizedNames ==
  \A p \in Callers :
    Computed(p) =>
      /\ NormalizedNames(Renormalized(p)) = NormalizedNames(result[p])
      /\ \A i \in 1..Len(result[p]) :
           ResolvedToItself(result[p][i].normalized, Renormalized(p)[i])

\* A result holding a canonical name reached by the fuzzy step and a token
\* resolved by the fallback, from raw tokens that differ from both names.
C27_Witness ==
  \E p \in Callers :
    /\ Computed(p)
    /\ \E i, j \in 1..Len(result[p]) :
         /\ result[p][i].weight = 8
         /\ result[p][i].original # result[p][i].normalized
         /\ Renormalized(p)[i].weight = 10
         /\ result[p][j].weight = 5
         /\ Renormalized(p)[j].weight = 5
         /\ Renormalized(p)[j].normalized = result[p][j].normalized

(***************************************************************************)
(* Properties of the scorer                                                *)
(***************************************************************************)
Scored == scoring = "done"

\* The later of updated_at and pushed_at is within 7 days when
\* applyFreshnessBoost reads the clock.
ActiveWithinSevenDays ==
  request.clock[4] - Max(request.repo.updated_at, request.repo.pushed_at) <= 7 * 24

\* The weights in force: the mode's, a missing mode counting as
\* profile-building, with the caller's fields over them.
WeightInForce(name) ==
  IF name \in request.options.weights.set THEN request.options.weights[name]
  ELSE IF request.options.mode = "learning"
       THEN [relevance |-> 30, quality |-> 50, opportunity |-> 20][name]
  ELSE IF request.options.mode = "quick-wins"
       THEN [relevance |-> 20, quality |-> 10, opportunity |-> 70][name]
  ELSE [relevance |-> 60, quality |-> 30, opportunity |-> 10][name]

\* relevance*w_r + quality*w_q + opportunity*w_o + bonuses - penalties
SumBeforeClamp ==
  (score.relevance * WeightInForce("relevance")) \div 100
  + (score.quality * WeightInForce("quality")) \div 100
  + (score.opportunity * WeightInForce("opportunity")) \div 100
  + ModeBonus(request.repo, request.options, request.clock[3])
  - (calculateSizePenalty(request.repo)
     + calculateModePenalties(request.repo, request.options, request.clock[2]))

ClampedSum ==
  IF SumBeforeClamp < 0 THEN 0
  ELSE IF SumBeforeClamp > One THEN One
  ELSE SumBeforeClamp

\* 0 <= x <= 1.2
InScoreRange(x) == 0 <= x /\ x <= Hundredths(120)

\* C8: the relevance, quality and opportunity scores, every sub-score of the
\* breakdown and the final score that scoreRepository returns lie in [0, 1.2],
\* for every repository, skill list and mode.
C8_ScoresInRange ==
  Scored =>
    /\ InScoreRange(score.relevance)
    /\ InScoreRange(score.quality)
    /\ InScoreRange(score.opportunity)
    /\ InScoreRange(score.final)
    /\ \A name \in DOMAIN score.breakdown : InScoreRange(score.breakdown[name])

\* A final score of exactly 1.2: the sum with its bonuses was above 1.0 before
\* the clamp, and the repository is fresh.
C8_Witness ==
  /\ Scored
  /\ score.final = Hundredths(120)
  /\ SumBeforeClamp > Hundredths(120)
  /\ score.breakdown.documentationScore = One
  /\ score.breakdown.issueScore = One

\* C9: the quality score is at most 1.0 for every repository and mode, also
\* when the goldilocks boost (stars in [50, 500]) and the fork boost are both
\* added to a weighted sum at its maximum.
C9_QualityAtMostOne == Scored => score.quality <= One

\* Both boosts were added, every signal of the weighted sum is at the most it
\* can be at 500 stars, and the sum with the boosts was above 1.0.
C9_Witness ==
  /\ Scored
  /\ request.repo.stargazers_count = 500
  /\ request.repo.forks_count >= 1
  /\ score.breakdown.activityScore = One
  /\ score.breakdown.documentationScore = One
  /\ score.breakdown.commitActivityScore = One
  /\ score.breakdown.readmeQualityScore = One
  /\ QualityWithBoosts(request.repo, request.options,
                       request.clock[1]) > One
  /\ score.quality = One

\* C10: the final score is the weighted sum of the three scores plus the mode
\* bonuses minus the size and mode penalties, clamped to [0, 1], times 1.2
\* exactly when the later of updated_at and pushed_at is within 7 days, with
\* no clamp after the product; a final score above 1.0 is a fresh repository's.
C10_FinalScoreFormula ==
  Scored =>
    /\ score.final = IF ActiveWithinSevenDays THEN (ClampedSum * 12) \div 10
                     ELSE ClampedSum
    /\ score.final > One => ActiveWithinSevenDays

\* A final score above 1.0 that is the product of an unclamped sum: bonuses
\* and penalties both applied, pushed_at alone within 7 days.
C10_Witness ==
  /\ Scored
  /\ score.final > One
  /\ SumBeforeClamp < One
  /\ ModeBonus(request.repo, request.options, request.clock[3]) > 0
  /\ calculateModePenalties(request.repo, request.options, request.clock[2]) > 0
  /\ request.clock[4] - request.repo.updated_at > 7 * 24

\* The weights of a mode as the documentation of the modes gives them, in
\* hundredths.
DocumentedWeights ==
  [m \in {"profile-building", "learning", "quick-wins"} |->
     IF m = "profile-building" THEN <<60, 30, 10>>
     ELSE IF m = "learning" THEN <<30, 50, 20>>
     ELSE <<20, 10, 70>>]

Ranked == ranking = "done"

\* What every call of scoreRepositories leaves: the arrays are of the shapes
\* the code builds.
RankTypeOK ==
  /\ ranking \in {"idle", "pending", "done", "responded"}
  /\ Len(sortedRepos) = Len(scoredRepos)
  /\ Len(randomizedRepos) = Len(scoredRepos)
  /\ Len(ranked) <= Len(scoredRepos)

\* The sub-block of the enriched data each enriched-data scorer reads.
BlockOf ==
  [commitActivityScore |-> "commitAnalysis",
   issueResponseScore |-> "issueAnalysis",
   dependencyHealthScore |-> "dependencyAnalysis",
   readmeQualityScore |-> "readmeAnalysis",
   skillMatchScore |-> "readmeAnalysis"]

\* The repository has no enrichedData, or enrichedData without that block.
BlockAbsent(repo, block) ==
  repo.enrichedData = Null \/ repo.enrichedData[block] = Null

\* No description, topics, language, homepage, license nor enrichedData.
LacksAllOptionalData(repo) ==
  /\ repo.description = "" /\ repo.topics = <<>> /\ repo.language = ""
  /\ repo.homepage = "" /\ repo.license = Null /\ repo.enrichedData = Null

\* C12: scoreRepositories scores every repository of the batch, whatever
\* optional data (enrichedData or one of its blocks, description, topics,
\* language, homepage, license) it or another repository of the batch lacks:
\* the scored list has one entry per input repository, in input order, holding
\* the score scoreRepository gives that repository alone, and in it each
\* enriched-data score whose block is absent is 0.
C12_MissingDataIsScored ==
  Ranked =>
    /\ Len(scoredRepos) = Len(batch.repos)
    /\ \A i \in 1..Len(scoredRepos) :
         /\ scoredRepos[i].repo = batch.repos[i]
         /\ scoredRepos[i].score =
              scoreRepository(batch.repos[i], batch.skills, batch.options, batch.clock)
         /\ \A name \in DOMAIN BlockOf :
              BlockAbsent(batch.repos[i], BlockOf[name])
                => scoredRepos[i].score.breakdown[name] = 0

\* A batch in which a repository lacking every optional field comes before one
\* with enriched data of which a block is absent and one with all blocks, and
\* all three were scored.
C12_Witness ==
  /\ Ranked
  /\ \E i, j, k \in 1..Len(scoredRepos) :
       /\ i < j /\ i < k
       /\ LacksAllOptionalData(scoredRepos[i].repo)
       /\ scoredRepos[j].repo.enrichedData # Null
       /\ BlockAbsent(scoredRepos[j].repo, "commitAnalysis")
       /\ ~BlockAbsent(scoredRepos[j].repo, "readmeAnalysis")
       /\ scoredRepos[j].score.breakdown.commitActivityScore = 0
       /\ scoredRepos[j].score.breakdown.readmeQualityScore > 0
       /\ \A name \in DOMAIN BlockOf :
            /\ ~BlockAbsent(scoredRepos[k].repo, BlockOf[name])
            /\ scoredRepos[k].score.breakdown[name] > 0

\* The number of repositories of the batch that are in a size tier.
InSomeTier(repo) == repo.stargazers_count >= 50

\* C13: scoreRepositories returns at most 50 entries; each is a repository of
\* the input paired with the score computed for that repository, and no
\* repository of the input is returned twice.
C13_AtMostFiftyOwnScoreOnce ==
  Ranked =>
    /\ Len(ranked) <= 50
    /\ \A k \in 1..Len(ranked) :
         \E i \in 1..Len(batch.repos) :
           /\ ranked[k].repo = batch.repos[i]
           /\ ranked[k].score = scoredRepos[i].score
           /\ scoredRepos[i].repo = batch.repos[i]
    /\ \A k, l \in 1..Len(ranked) : k # l => ranked[k].repo # ranked[l].repo

\* A batch with more than 50 repositories in the size tiers, of which 50 were
\* returned, the two with a score above 0 among them.
C13_Witness ==
  /\ Ranked
  /\ Cardinality({i \in 1..Len(batch.repos) : InSomeTier(batch.repos[i])}) > 50
  /\ Len(ranked) = 50
  /\ Cardinality({k \in 1..Len(ranked) : ranked[k].score.final > 0}) = 2

\* |a - b| <= 3% of a, a being the score of the first entry of a band.
InBandOf(a, b) == (IF a >= b THEN a - b ELSE b - a) * 100 <= 3 * a

\* The last position of the band that starts at position s of the list: the
\* longest run from s on whose scores are all in the band of the score at s.
BandEnd(list, s) ==
  CHOOSE e \in s..Len(list) :
    /\ \A k \in s..e : InBandOf(list[s].score.final, list[k].score.final)
    /\ e = Len(list) \/ ~InBandOf(list[s].score.final, list[e + 1].score.final)

\* The first positions of the bands of the list, found by scanning it: `found`
\* are those found so far, `more` the number of bands still to look for.
RECURSIVE BandStarts(_, _, _)
BandStarts(list, found, more) ==
  IF more = 0 THEN found
  ELSE IF more = 1
  THEN LET next == IF found = <<>> THEN 1
                   ELSE BandEnd(list, found[Len(found)]) + 1
       IN IF next <= Len(list) THEN Append(found, next) ELSE found
  ELSE CHOOSE after \in
         {BandStarts(list, half, more - more \div 2) :
            half \in {BandStarts(list, found, more \div 2)}} : TRUE

SortedDescending(list) ==
  \A k \in 1..(Len(list) - 1) : list[k].score.final >= list[k + 1].score.final

\* C14: randomizeCloseScores splits the list sorted by descending final score
\* into consecutive bands, each the longest run from its first entry on whose
\* scores are within 3% (relative to that first score) of it, and returns the
\* bands in their order, each holding the same entries in some order: the
\* result is a permutation of the list in which no entry leaves its band.
C14_ShuffleWithinBands ==
  Ranked =>
    LET starts == BandStarts(sortedRepos, <<>>, Len(sortedRepos))
    IN /\ SortedDescending(sortedRepos)
       /\ Len(randomizedRepos) = Len(sortedRepos)
       /\ \A g \in 1..Len(starts) :
            LET s == starts[g]
                e == BandEnd(sortedRepos, s)
            IN {randomizedRepos[k] : k \in s..e} = {sortedRepos[k] : k \in s..e}
       /\ \A k, l \in 1..Len(randomizedRepos) :
            k # l => randomizedRepos[k] # randomizedRepos[l]

\* Three entries with descending scores, the second within 3% of the first,
\* the third within 3% of the second and not of the first: the first two came
\* out in the other order and the third stayed where it was.
C14_Witness ==
  /\ Ranked
  /\ Len(sortedRepos) >= 3
  /\ sortedRepos[1].score.final > sortedRepos[2].score.final
  /\ sortedRepos[2].score.final > sortedRepos[3].score.final
  /\ InBandOf(sortedRepos[1].score.final, sortedRepos[2].score.final)
  /\ InBandOf(sortedRepos[2].score.final, sortedRepos[3].score.final)
  /\ ~InBandOf(sortedRepos[1].score.final, sortedRepos[3].score.final)
  /\ randomizedRepos[1] = sortedRepos[2]
  /\ randomizedRepos[2] = sortedRepos[1]
  /\ randomizedRepos[3] = sortedRepos[3]

\* The size tier of a repository by its star count.
TierOf(repo) ==
  IF repo.stargazers_count < 50 THEN "none"
  ELSE IF repo.stargazers_count < 500 THEN "small"
  ELSE IF repo.stargazers_count < 2000 THEN "medium"
  ELSE "large"

\* The entries of a tier, in the order of the list.
OfTier(list, tier) == SelectSeq(list, LAMBDA entry : TierOf(entry.repo) = tier)

\* How many entries of the tier were returned before 0-based position i.
EmittedBefore(i, tier) ==
  Cardinality({k \in 1..i : TierOf(ranked[k].repo) = tier})

Exhausted(i, tier) == EmittedBefore(i, tier) >= Len(OfTier(randomizedRepos, tier))

\* The tier the 4-step cycle designates for 0-based position i.
Designated(i) == IF i % 4 \in {0, 1} THEN "small" ELSE IF i % 4 = 2 THEN "medium" ELSE "large"

\* The tier position i is taken from: the designated one, or when that is
\* exhausted the smallest that is not.
TierAt(i) ==
  IF ~Exhausted(i, Designated(i)) THEN Designated(i)
  ELSE IF ~Exhausted(i, "small") THEN "small"
  ELSE IF ~Exhausted(i, "medium") THEN "medium"
  ELSE "large"

PositionIn(list, entry) == CHOOSE k \in 1..Len(list) : list[k].repo.id = entry.repo.id

\* For each position of the sorted list, the number of the band it is in.
BandNumbers ==
  LET starts == BandStarts(sortedRepos, <<>>, Len(sortedRepos))
  IN SubSeq([at \in 1..Len(sortedRepos) |->
               Cardinality({g \in 1..Len(starts) : starts[g] <= at})],
            1, Len(sortedRepos))

\* C16: two returned repositories of the same size tier are in the order they
\* have in the list randomizeCloseScores returned; when they are of different
\* tie bands the one with the higher final score comes first.
C16_TierKeepsOrder ==
  Ranked =>
    LET n == Len(ranked)
        shuffledAt == SubSeq([k \in 1..n |-> PositionIn(randomizedRepos, ranked[k])], 1, n)
        sortedAt == SubSeq([k \in 1..n |-> PositionIn(sortedRepos, ranked[k])], 1, n)
        bands == BandNumbers
    IN \A k, l \in 1..n :
         (k < l /\ TierOf(ranked[k].repo) = TierOf(ranked[l].repo)) =>
           /\ shuffledAt[k] < shuffledAt[l]
           /\ bands[sortedAt[k]] # bands[sortedAt[l]]
                => ranked[k].score.final > ranked[l].score.final

\* Two small repositories of one band returned in the order the shuffle gave
\* them, the lower score first, ahead of a small repository of a later band.
C16_Witness ==
  /\ Ranked
  /\ Len(ranked) \in 3..9
  /\ LET n == Len(ranked)
         sortedAt == SubSeq([k \in 1..n |-> PositionIn(sortedRepos, ranked[k])], 1, n)
         bands == BandNumbers
     IN \E k, l, m \in 1..n :
          /\ k < l /\ l < m
          /\ TierOf(ranked[k].repo) = "small" /\ TierOf(ranked[l].repo) = "small"
          /\ TierOf(ranked[m].repo) = "small"
          /\ bands[sortedAt[k]] = bands[sortedAt[l]]
          /\ ranked[k].score.final < ranked[l].score.final
          /\ sortedAt[l] < sortedAt[k]
          /\ bands[sortedAt[m]] # bands[sortedAt[l]]

\* ---------------------------------------------------------------------------
\* Properties of the penalties and of the sub-scores
\* ---------------------------------------------------------------------------

\* The repository of the call with one good first issue and one open issue:
\* it differs from the repository of the call in nothing else, and one open
\* issue is under every threshold of calculateModePenalties.
WithOneIssueOfEach ==
  [request.repo EXCEPT !.goodFirstIssues = 1, !.open_issues_count = 1]

\* C17: in quick-wins mode a repository with goodFirstIssues = 0 and
\* open_issues_count = 0 incurs both heavy penalties, 0.5 for having no good
\* first issue and 0.5 for having no open issue, added together: its mode
\* penalties are 1.0 above those of the same repository with one issue of
\* each kind.
C17_BothHeavyPenalties ==
  (/\ Scored
   /\ request.options.mode = "quick-wins"
   /\ request.repo.goodFirstIssues = 0
   /\ request.repo.open_issues_count = 0)
  => calculateModePenalties(request.repo, request.options,
                            At(request.clock, "calculateModePenalties"))
     = calculateModePenalties(WithOneIssueOfEach, request.options,
                              At(request.clock, "calculateModePenalties"))
       + Hundredths(50) + Hundredths(50)

\* 0 stars, 0 forks, no description and no enriched data, scored in
\* profile-building mode.
UnknownBareRepository ==
  /\ request.options.mode = "profile-building"
  /\ request.repo.stargazers_count = 0
  /\ request.repo.forks_count = 0
  /\ request.repo.description = ""
  /\ request.repo.enrichedData = Null

\* No homepage, no license or one named "Other", no topic and no good first
\* issue.
NothingElseDocumented ==
  /\ request.repo.homepage = ""
  /\ request.repo.license = Null \/ request.repo.license.name = "Other"
  /\ request.repo.topics = <<>>
  /\ request.repo.goodFirstIssues = 0

\* The quality score of profile-building mode from its six sub-scores alone,
\* without the goldilocks boost and the fork boost.
QualityWithoutBoosts ==
  Weighted(score.breakdown.starsScore, 30)
  + Weighted(calculateActivityScore(request.repo,
                                    At(request.clock, "calculateQualityScore")), 20)
  + Weighted(score.breakdown.documentationScore, 15)
  + Weighted(score.breakdown.commitActivityScore, 15)
  + Weighted(score.breakdown.dependencyHealthScore, 10)
  + Weighted(score.breakdown.readmeQualityScore, 10)

\* The mode penalties are at least 0.5 above those of the same repository
\* with 200 stars, which has no low-visibility penalty.
LowVisibilityPenaltyApplies ==
  calculateModePenalties(request.repo, request.options,
                         At(request.clock, "calculateModePenalties"))
  >= calculateModePenalties([request.repo EXCEPT !.stargazers_count = 200],
                            request.options,
                            At(request.clock, "calculateModePenalties"))
     + Hundredths(50)

\* The stars score is 0, neither boost is added to quality, and the
\* low-visibility penalty is among the penalties.
ScoredAsUnknown ==
  /\ score.breakdown.starsScore = 0
  /\ score.quality = QualityWithoutBoosts
  /\ LowVisibilityPenaltyApplies

\* C18, as stated: a repository with 0 stars, 0 forks, no description and no
\* enriched data, scored in profile-building mode, has stars score 0 and
\* documentation score 0, gets neither the goldilocks boost nor the fork boost
\* in quality, and its penalties include the low-visibility penalty of at
\* least 0.5; that penalty applies to every repository with fewer than 50
\* stars.
C18_AsStated ==
  Scored =>
    /\ UnknownBareRepository =>
         ScoredAsUnknown /\ score.breakdown.documentationScore = 0
    /\ (request.options.mode = "profile-building"
        /\ request.repo.stargazers_count < 50) => LowVisibilityPenaltyApplies

\* C18, amended: the same, the documentation score being 0 when the
\* repository has, besides no description, no homepage, no license other
\* than "Other", no topic and no good first issue.
C18_UnknownBareRepository ==
  Scored =>
    /\ UnknownBareRepository => ScoredAsUnknown
    /\ (UnknownBareRepository /\ NothingElseDocumented) =>
         score.breakdown.documentationScore = 0
    /\ (request.options.mode = "profile-building"
        /\ request.repo.stargazers_count < 50) => LowVisibilityPenaltyApplies

\* Such a repository scored, with nothing else documented: stars score and
\* documentation score are 0, quality has no boost, and the penalties leave a
\* final score of 0.
C18_Witness ==
  /\ Scored
  /\ UnknownBareRepository
  /\ NothingElseDocumented
  /\ score.breakdown.starsScore = 0
  /\ score.breakdown.documentationScore = 0
  /\ score.quality = QualityWithoutBoosts
  /\ score.final = 0

\* What the call of the current request returns when options.weights is
\* replaced and nothing else is.
ScoreWithWeights(override) ==
  scoreRepository(request.repo, request.skills,
                  [request.options EXCEPT !.weights = override], request.clock)

\* Every field but `final` is the same in both results.
SameButFinal(a, b) ==
  /\ a.relevance = b.relevance
  /\ a.quality = b.quality
  /\ a.opportunity = b.opportunity
  /\ a.breakdown = b.breakdown

\* C19: the relevance, quality and opportunity scores and the sub-scores of
\* the breakdown are the values before weighting and adjustment: a call that
\* differs from this one only in options.weights returns the same value in
\* every field except final.
C19_OnlyFinalDependsOnWeights ==
  Scored => \A override \in WeightOverrides \ {request.options.weights} :
              SameButFinal(score, ScoreWithWeights(override))

\* A call with overridden weights whose final score differs from the one of
\* the call without override, with all three dimension scores positive.
C19_Witness ==
  /\ Scored
  /\ request.options.weights.set # {}
  /\ score.relevance > 0 /\ score.quality > 0 /\ score.opportunity > 0
  /\ ScoreWithWeights(NoOverride).final # score.final
  /\ SameButFinal(score, ScoreWithWeights(NoOverride))

\* The stars score as documented, for a star count of 0 or more.
DocumentedStarsScore(stars) ==
  IF stars = 0 THEN 0
  ELSE IF stars > 20000 THEN Hundredths(50)
  ELSE IF 5000 < stars /\ stars <= 20000 THEN Hundredths(60)
  ELSE IF 1000 < stars /\ stars <= 5000 THEN Hundredths(70)
  ELSE LET linear == (stars * One) \div 1000
       IN IF linear <= Hundredths(70) THEN linear ELSE Hundredths(70)

\* C20: the stars score is 0 for 0 stars, 0.5 above 20000 stars, 0.6 from
\* 5001 to 20000, 0.7 from 1001 to 5000 and min(stars/1000, 0.7) from 1 to
\* 1000; it is never above 0.7.
C20_StarsScore ==
  Scored =>
    /\ score.breakdown.starsScore = DocumentedStarsScore(request.repo.stargazers_count)
    /\ score.breakdown.starsScore <= Hundredths(70)

\* 1000 stars: stars/1000 is 1.0 and the score is held at 0.7.
C20_Witness ==
  /\ Scored
  /\ request.repo.stargazers_count = 1000
  /\ score.breakdown.starsScore = Hundredths(70)

\* The size penalty as documented, from the two counts alone.
DocumentedSizePenalty(openIssues, stars) ==
  (IF openIssues > 5000 THEN Hundredths(30)
   ELSE IF openIssues > 1000 THEN Hundredths(15) ELSE 0)
  + (IF stars > 1000 THEN (Log10(stars) * 8) \div 100 ELSE 0)
  + (IF stars > 10000 THEN Hundredths(15) ELSE 0)

\* The weighted sum with the mode's bonuses and the mode's penalties, the
\* size penalty left out.
SumBeforeSizePenalty ==
  (score.relevance * WeightInForce("relevance")) \div 100
  + (score.quality * WeightInForce("quality")) \div 100
  + (score.opportunity * WeightInForce("opportunity")) \div 100
  + ModeBonus(request.repo, request.options, At(request.clock, "applyModeBonuses"))
  - calculateModePenalties(request.repo, request.options,
                           At(request.clock, "calculateModePenalties"))

\* x held in [0, 1], times 1.2 for a repository active within 7 days.
ClampedAndFreshened(x) ==
  LET clamped == IF x < 0 THEN 0 ELSE IF x > One THEN One ELSE x
  IN IF ActiveWithinSevenDays THEN (clamped * 12) \div 10 ELSE clamped

\* C22: the size penalty is 0.3 for more than 5000 open issues (0.15 for more
\* than 1000), plus log10(stars) * 0.08 above 1000 stars, plus 0.15 above
\* 10000 stars; it depends on these two counts alone and is subtracted from
\* the sum in every mode and when no mode is given.
C22_SizePenaltyInEveryMode ==
  Scored =>
    LET size == DocumentedSizePenalty(request.repo.open_issues_count,
                                      request.repo.stargazers_count)
    IN /\ calculateSizePenalty(request.repo) = size
       /\ score.final = ClampedAndFreshened(SumBeforeSizePenalty - size)

\* A call without mode on a repository of more than 10000 stars: the three
\* parts of the penalty that apply are subtracted and leave a final score
\* that the clamp did not touch.
C22_Witness ==
  /\ Scored
  /\ request.options.mode = ""
  /\ request.repo.stargazers_count > 10000
  /\ calculateSizePenalty(request.repo) > Hundredths(45)
  /\ SumBeforeSizePenalty - calculateSizePenalty(request.repo) > 0
  /\ SumBeforeSizePenalty - calculateSizePenalty(request.repo) < One
  /\ score.final > 0

\* ---------------------------------------------------------------------------
\* Further properties of the ranking
\* ---------------------------------------------------------------------------

\* The positions of the batch whose repository has at least 50 stars.
WithFiftyStars == {i \in 1..Len(batch.repos) : batch.repos[i].stargazers_count >= 50}

\* C23: scoreRepositories returns min(50, n) entries, n being the number of
\* repositories of the input with at least 50 stars; a repository with fewer
\* than 50 stars is in none of the three tiers and is never returned, whatever
\* its final score.
C23_OnlyFiftyStarsAndMore ==
  Ranked =>
    /\ Len(ranked) = (IF Cardinality(WithFiftyStars) < 50
                      THEN Cardinality(WithFiftyStars) ELSE 50)
    /\ \A k \in 1..Len(ranked) : ranked[k].repo.stargazers_count >= 50
    /\ \A i \in 1..Len(batch.repos) :
         batch.repos[i].stargazers_count < 50 =>
           /\ ~IsSmall(scoredRepos[i]) /\ ~IsMedium(scoredRepos[i]) /\ ~IsLarge(scoredRepos[i])
           /\ \A k \in 1..Len(ranked) : ranked[k].repo.id # batch.repos[i].id

\* A repository of 49 stars came first in the descending sort, with a final
\* score above 0, and is not returned, while repositories that score less
\* are.
C23_Witness ==
  /\ Ranked
  /\ Len(sortedRepos) >= 2
  /\ sortedRepos[1].repo.stargazers_count = 49
  /\ sortedRepos[1].score.final > 0
  /\ Len(ranked) >= 1
  /\ Len(ranked) < Len(batch.repos)
  /\ \A k \in 1..Len(ranked) : ranked[k].score.final < sortedRepos[1].score.final

\* What the call of the current request returns with mode 'profile-building'.
ScoreInProfileBuilding ==
  scoreRepository(request.repo, request.skills,
                  [request.options EXCEPT !.mode = "profile-building"], request.clock)

\* C26: a call of scoreRepository without options.mode returns the same
\* relevance, quality, opportunity, final score and breakdown as the call with
\* mode 'profile-building' on the same repository, skills and clock.
C26_NoModeIsProfileBuilding ==
  (Scored /\ request.options.mode = "") => score = ScoreInProfileBuilding

\* The positions of the sorted list at which randomizeCloseScores starts a
\* group.
GroupStarts ==
  LET starts == CloseGroupStarts(sortedRepos, <<>>, Len(sortedRepos))
  IN {starts[g] : g \in 1..Len(starts)}

\* C28: two repositories with exactly equal final scores that are adjacent
\* after the descending sort are in the same tie-band group, whatever the
\* score, 0 included: no group starts at the second of them.
C28_EqualNeighboursShareGroup ==
  Ranked =>
    \A k \in 1..(Len(sortedRepos) - 1) :
      sortedRepos[k].score.final = sortedRepos[k + 1].score.final
        => (k + 1) \notin GroupStarts

\* ---------------------------------------------------------------------------
\* Properties of the explanation
\* ---------------------------------------------------------------------------
Explained == scoring = "explained"

\* None of the thresholds of language match, topic match, activity and issue
\* score is exceeded.
NothingElseNotable ==
  /\ score.breakdown.languageMatch <= Hundredths(50)
  /\ score.breakdown.topicMatch <= Hundredths(50)
  /\ score.breakdown.activityScore <= Hundredths(70)
  /\ score.breakdown.issueScore <= Hundredths(60)

\* C29: no score that scoreRepository produces has a stars score above the
\* threshold 0.7 of the explanation, so the explanation of such a score never
\* holds the phrase 'High community interest', whatever the star count; and
\* the explanation is 'Standard repository metrics' exactly when none of the
\* other four thresholds is exceeded.
C29_NeverHighCommunityInterest ==
  Explained =>
    /\ score.breakdown.starsScore <= Hundredths(70)
    /\ ~Includes(explanation, "High community interest")
    /\ (explanation = "Standard repository metrics") <=> NothingElseNotable

\* A repository of more than 1000 stars, whose stars score is 0.7, the highest
\* there is, explained by the fallback alone.
C29_Witness ==
  /\ Explained
  /\ request.repo.stargazers_count > 1000
  /\ score.breakdown.starsScore = Hundredths(70)
  /\ NothingElseNotable
  /\ explanation = "Standard repository metrics"

\* ---------------------------------------------------------------------------
\* Properties of the search route's response
\* ---------------------------------------------------------------------------
Responded == ranking = "responded"

\* The request asks for the order by relevance, in words or by default.
ByRelevance == response.sort \in {"", "relevance"}

\* The final score computed for the repository of a response entry.
FinalOf(formatted) == scoredRepos[formatted.id].score.final

\* The positions of `ranked` whose entry is in the response.
InResponse ==
  {k \in 1..Len(ranked) :
     \E r \in 1..Len(response.repositories) :
       response.repositories[r].id = ranked[k].repo.id}

\* C30: when POST /api/search sorts by relevance, which is the default, the
\* repositories of its response are in non-increasing order of final score:
\* the handler sorts the list scoreRepositories returned again before it
\* paginates, so the response holds the highest-scoring entries of that list,
\* not its first ones in the order of the size tiers.
C30_ResponseByFinalScore ==
  (Responded /\ ByRelevance) =>
    /\ \A r \in 1..(Len(response.repositories) - 1) :
         /\ FinalOf(response.repositories[r]) >= FinalOf(response.repositories[r + 1])
         /\ response.repositories[r].scores.final
              >= response.repositories[r + 1].scores.final
    /\ Cardinality(InResponse) = Len(response.repositories)
    /\ response.page = 1 =>
         /\ Len(response.repositories)
              = (IF Len(ranked) < response.limit THEN Len(ranked) ELSE response.limit)
         /\ \A k \in 1..Len(ranked), l \in InResponse :
              k \notin InResponse => ranked[k].score.final <= ranked[l].score.final

\* The ranker returned a list that is not in descending order of final score,
\* a lower-scoring small repository ahead of a higher-scoring one of another
\* tier, and the response by default order holds the same repositories in
\* descending order.
C30_Witness ==
  /\ Responded
  /\ response.sort = ""
  /\ Len(ranked) >= 3
  /\ \E k \in 1..(Len(ranked) - 1) : ranked[k].score.final < ranked[k + 1].score.final
  /\ Len(response.repositories) = Len(ranked)
  /\ \A r \in 1..(Len(response.repositories) - 1) :
       FinalOf(response.repositories[r]) >= FinalOf(response.repositories[r + 1])
  /\ \E r \in 1..Len(response.repositories) :
       response.repositories[r].id # ranked[r].repo.id
=============================================================================
